---- MODULE Spec2Model ----
(***************************************************************************)
(* docker_mcp: the multi-endpoint registry (DockerManager), the endpoint   *)
(* connection (DockerService) and the compose lifecycle, modelled from     *)
(* src/unnamed/part_003 (services/docker.ts); the tool handlers, modelled  *)
(* from src/unnamed/part_006 (tools/index.ts); the startup registration,   *)
(* from src/src/index.ts.                                                  *)
(*                                                                         *)
(* Strings the code transforms character by character (names, socket      *)
(* paths, container names) are sequences of one-character strings; an      *)
(* absent or empty (falsy) string is <<>>, an absent (falsy) number is 0.  *)
(***************************************************************************)
EXTENDS Integers, Sequences, FiniteSets, TLC

VARIABLES
    services,   \* DockerManager.services: the Map, as its entries in iteration order
    regRank,    \* history: for each name, its rank by time of registration (0: absent)
    lastAdd,    \* history: the latest addDockerService: its name, and whether it replaced
    fan,        \* the fan-out operation in flight (listAll*, findContainerService)
    lastWasAdd, \* history: for each name, whether the latest add/remove aimed at it was an add
    ret,        \* what the synchronous registry method called in the latest step returned
    now,        \* Date.now(), the millisecond clock
    tmpFiles,   \* the files of os.tmpdir(): path -> [content, writer]
    inv,        \* the compose invocations: runDockerCompose / runDockerComposeDown
    ctor,       \* one `new DockerService(...)`: what was passed, and what getName returned since
    tool,       \* the tool handler in flight (tools/index.ts)
    engine,     \* the engine calls that handler has issued, in order
    call,       \* one DockerService method call on a connection, and the request it sent
    world,      \* the containers each engine holds: client handle -> containers
    boot        \* main() of index.ts: the environment it read and what it registered

vars == <<services, regRank, lastAdd, fan, lastWasAdd, ret, now, tmpFiles, inv,
          ctor, tool, engine, call, world, boot>>
regVars == <<services, regRank, lastAdd, fan, lastWasAdd, ret>>
registry == <<services, regRank, lastAdd, lastWasAdd>>
composeVars == <<now, tmpFiles, inv>>
ctorVars == <<ctor>>
toolVars == <<tool, engine>>
callVars == <<call, world>>
bootVars == <<boot>>

(***************************************************************************)
(* Bounds of the model.                                                    *)
(***************************************************************************)
\* registry mutations interleaved at the await points of one fan-out
MaxInterleave == 2
\* compose invocations started in one behaviour
MaxInvocations == 2
\* ticks of the millisecond clock
MaxTime == 1
\* getName calls on one constructed connection
MaxGetName == 2

(***************************************************************************)
(* Strings.                                                                *)
(***************************************************************************)
NoStr == <<>>
Slash == "/"
Backslash == "\\"
S_a == <<"a">>
S_h == <<"h">>
S_g == <<"g">>
S_w == <<"w">>
S_1 == <<"1">>
S_2 == <<"2">>
S_3 == <<"3">>
S_zz == <<"z", "z">>
SockPath == <<"/", "s">>
S_slash_w == <<"/", "w">>
S_slash_d == <<"/", "d">>
S_slash_1 == <<"/", "1">>
S_localhost == <<"l", "o", "c", "a", "l", "h", "o", "s", "t">>
S_socket_ == <<"s", "o", "c", "k", "e", "t", "-">>

\* mutant: only '/' is replaced
ReplaceSeparators_slashOnly(s) ==
    [i \in 1..Len(s) |-> IF s[i] = "/" THEN "_" ELSE s[i]]

\* String.prototype.replace(/[/\\]/g, '_')
ReplaceSeparators(s) ==
    [i \in 1..Len(s) |-> IF s[i] \in {Slash, Backslash} THEN "_" ELSE s[i]]

\* String.prototype.replace(/^\//, '')
StripLeadingSlash(s) ==
    IF Len(s) > 0 /\ s[1] = Slash THEN Tail(s) ELSE s

(***************************************************************************)
(* DockerConfig and DockerService.                                         *)
(***************************************************************************)
DefaultPort == 2375

Config(name, host, port, protocol, socketPath, ca, cert, key) ==
    [name |-> name, host |-> host, port |-> port, protocol |-> protocol,
     socketPath |-> socketPath, ca |-> ca, cert |-> cert, key |-> key]

\* the configurations handed to addDockerService
CfgA == Config(S_a, NoStr, 0, "", SockPath, "", "", "")
CfgB == Config(NoStr, S_h, 0, "", NoStr, "", "", "")
CfgC == Config(NoStr, S_h, 0, "", SockPath, "", "", "")
CfgD == Config(S_h, S_g, 2376, "https", NoStr, "ca", "cert", "key")
Configs == {CfgA, CfgB, CfgC, CfgD}

\* the options given to `new Docker(...)` by the constructor
DockerOpts(mode, socketPath, host, port, protocol, ca, cert, key) ==
    [mode |-> mode, socketPath |-> socketPath, host |-> host, port |-> port,
     protocol |-> protocol, ca |-> ca, cert |-> cert, key |-> key]

ConstructorDocker(config) ==
    IF config.socketPath # NoStr
    THEN DockerOpts("socket", config.socketPath, NoStr, 0, "", "", "", "")
    ELSE IF config.host # NoStr
    THEN LET tls == config.ca # "" /\ config.cert # "" /\ config.key # ""
         IN  DockerOpts("tcp", NoStr, config.host,
                        IF config.port # 0 THEN config.port ELSE DefaultPort,
                        IF config.protocol # "" THEN config.protocol ELSE "http",
                        IF tls THEN config.ca ELSE "",
                        IF tls THEN config.cert ELSE "",
                        IF tls THEN config.key ELSE "")
    ELSE DockerOpts("default", NoStr, NoStr, 0, "", "", "", "")

ConstructorName(config) ==
    IF config.name # NoStr THEN config.name
    ELSE IF config.socketPath # NoStr
         THEN S_socket_ \o ReplaceSeparators(config.socketPath)
         ELSE IF config.host # NoStr THEN config.host ELSE S_localhost

\* new DockerService(config)
NewDockerService(config) ==
    [docker |-> ConstructorDocker(config),
     config |-> [config EXCEPT !.name = ConstructorName(config)]]

getName(service) ==
    IF service.config.name # NoStr THEN service.config.name ELSE S_localhost

NoService == [docker |-> DockerOpts("none", NoStr, NoStr, 0, "", "", "", ""),
              config |-> Config(NoStr, NoStr, 0, "", NoStr, "", "", "")]

\* every name a registry entry can have
ServiceNames == {getName(NewDockerService(c)) : c \in Configs}

(***************************************************************************)
(* The container engines behind the connections: what each engine holds.   *)
(***************************************************************************)
RawContainer(id, names, image, state, status) ==
    [Id |-> id, Names |-> names, Image |-> image, State |-> state, Status |-> status]

EngineContainers(docker) ==
    CASE docker.mode = "socket" /\ docker.socketPath = SockPath ->
            << RawContainer(S_1, <<S_slash_w>>, "nginx", "running", "Up"),
               RawContainer(S_2, <<S_slash_d>>, "redis", "exited", "Exited (0)") >>
      [] docker.mode = "tcp" /\ docker.host = S_h ->
            << RawContainer(S_3, <<S_slash_w>>, "nginx", "exited", "Exited (1)"),
               RawContainer(S_1, <<S_slash_1>>, "redis", "running", "Up") >>
      [] docker.mode = "tcp" /\ docker.host = S_g ->
            << RawContainer(S_w, <<S_slash_d>>, "nginx", "running", "Up") >>
      [] OTHER -> << >>

EngineImages(docker) ==
    CASE docker.mode = "socket" -> << "sha:nginx", "sha:redis" >>
      [] docker.mode = "tcp" /\ docker.host = S_h -> << "sha:nginx" >>
      [] OTHER -> << >>

EngineNetworks(docker) ==
    CASE docker.mode = "socket" -> << "bridge" >>
      [] OTHER -> << "bridge", "host" >>

EngineVolumes(docker) ==
    CASE docker.mode = "tcp" /\ docker.host = S_g -> << "data" >>
      [] OTHER -> << >>

\* docker.listContainers({ all }): the engine lists running containers, and all with `all`
dockerListContainers(docker, all) ==
    SelectSeq(EngineContainers(docker), LAMBDA c : all \/ c.State = "running")

(***************************************************************************)
(* DockerService operations.  A call's outcome is [ok, value]; `reached`   *)
(* says whether the engine answered (FALSE: the request failed).           *)
(***************************************************************************)
Failure == [ok |-> FALSE, value |-> << >>]
Success(v) == [ok |-> TRUE, value |-> v]

\* mutant: the descriptor is labelled with the host instead of the name
ContainerInfo_hostLabel(container, service) ==
    [id |-> container.Id,
     name |-> StripLeadingSlash(container.Names[1]),
     image |-> container.Image,
     state |-> container.State,
     status |-> container.Status,
     dockerServer |-> service.config.host]

ContainerInfo(container, service) ==
    [id |-> container.Id,
     name |-> StripLeadingSlash(container.Names[1]),
     image |-> container.Image,
     state |-> container.State,
     status |-> container.Status,
     dockerServer |-> getName(service)]

listContainers(service, all, reached) ==
    IF ~reached THEN Failure
    ELSE LET containers == dockerListContainers(service.docker, all)
         IN  IF \E i \in 1..Len(containers) : Len(containers[i].Names) = 0
             THEN Failure   \* container.Names[0] is undefined: TypeError
             ELSE Success([i \in 1..Len(containers) |->
                              ContainerInfo(containers[i], service)])

listImages(service, reached) ==
    IF reached THEN Success(EngineImages(service.docker)) ELSE Failure

listNetworks(service, reached) ==
    IF reached THEN Success(EngineNetworks(service.docker)) ELSE Failure

listVolumes(service, reached) ==
    IF reached THEN Success(EngineVolumes(service.docker)) ELSE Failure

(***************************************************************************)
(* The Map of DockerManager: entries in insertion order.                   *)
(***************************************************************************)
Entry(name, service) == [name |-> name, service |-> service]
NoEntry == Entry(NoStr, NoService)

MapIndex(m, k) ==
    IF \E i \in 1..Len(m) : m[i].name = k
    THEN CHOOSE i \in 1..Len(m) : m[i].name = k
    ELSE 0

MapHas(m, k) == MapIndex(m, k) # 0

\* mutant: overwriting a present key moves the entry to the end
MapSet_moveToEnd(m, k, v) ==
    Append(SelectSeq(m, LAMBDA e : e.name # k), [name |-> k, service |-> v])

\* mutant: a present key is kept and its value too (first write wins)
MapSet_keepFirst(m, k, v) ==
    IF \E i \in 1..Len(m) : m[i].name = k THEN m ELSE Append(m, [name |-> k, service |-> v])

\* Map.prototype.set: a present key keeps its place and takes the new value
MapSet(m, k, v) ==
    IF MapHas(m, k)
    THEN [m EXCEPT ![MapIndex(m, k)] = Entry(k, v)]
    ELSE Append(m, Entry(k, v))

\* mutant: delete drops nothing
MapDelete_nothing(m, k) == m

\* Map.prototype.delete: the Map afterwards
MapDelete(m, k) == SelectSeq(m, LAMBDA e : e.name # k)

\* mutant: delete always reports a removal
MapDeleteResult_always(m, k) == TRUE

\* Map.prototype.delete: the boolean it returns
MapDeleteResult(m, k) == MapHas(m, k)

\* Map.prototype.get, undefined as NoService
MapGet(m, k) == IF MapHas(m, k) THEN m[MapIndex(m, k)].service ELSE NoService

\* DockerManager.getDockerService
getDockerService(m, name) == MapGet(m, name)

\* DockerManager.getDockerServiceNames: Array.from(this.services.keys())
getDockerServiceNames(m) == [i \in 1..Len(m) |-> m[i].name]

\* what a synchronous registry method gave back: [op, name, config, value]
NoConfig == Config(NoStr, NoStr, 0, "", NoStr, "", "", "")
Returned(op, name, config, value) ==
    [op |-> op, name |-> name, config |-> config, value |-> value]
NoReturn == Returned("", NoStr, NoConfig, FALSE)

(***************************************************************************)
(* The fan-out in flight.                                                  *)
(***************************************************************************)
NotFound == [found |-> FALSE, service |-> NoService, serverName |-> NoStr]
Found(service, name) == [found |-> TRUE, service |-> service, serverName |-> name]

IdleFan ==
    [op |-> "none", status |-> "idle", all |-> FALSE, containerId |-> NoStr,
     pos |-> 0, cur |-> NoEntry, acc |-> << >>, found |-> NotFound,
     calls |-> << >>, snapshot |-> << >>, mutations |-> 0]

\* the identifiers findContainerService is asked for
Identifiers == {S_1, S_2, S_w, S_slash_w, S_zz}

\* mutant: after the last endpoint the function never settles its promise
NextEntry_neverSettles(f, m) ==
    IF f.pos < Len(m)
    THEN [f EXCEPT !.pos = f.pos + 1, !.cur = m[f.pos + 1], !.status = "awaiting"]
    ELSE [f EXCEPT !.cur = NoEntry, !.status = "hung"]

\* this.services.entries() advanced by one: the for-of loop takes the next
\* entry and issues its call (the function suspends), or ends and returns
NextEntry(f, m) ==
    IF f.pos < Len(m)
    THEN [f EXCEPT !.pos = f.pos + 1, !.cur = m[f.pos + 1], !.status = "awaiting"]
    ELSE [f EXCEPT !.cur = NoEntry, !.status = "returned"]

Called(f, ok) ==
    Append(f.calls, [name |-> f.cur.name, service |-> f.cur.service, ok |-> ok])

\* mutant: no try/catch around the per-endpoint call
listAllContainersStep_noCatch(f, m, reached) ==
    LET r == listContainers(f.cur.service, f.all, reached)
        g == [f EXCEPT !.calls = Called(f, r.ok)]
    IN  IF r.ok
        THEN NextEntry([g EXCEPT !.acc = g.acc \o r.value], m)
        ELSE [g EXCEPT !.status = "raised"]

\* mutant: the result of an endpoint that was removed during its call is dropped
listAllContainersStep_dropRemoved(f, m, reached) ==
    LET r == listContainers(f.cur.service, f.all, reached)
        g == [f EXCEPT !.calls = Called(f, r.ok)]
    IN  IF r.ok /\ MapHas(m, f.cur.name)
        THEN NextEntry([g EXCEPT !.acc = g.acc \o r.value], m)
        ELSE NextEntry(g, m)

\* listAllContainers: one turn of the loop body once the awaited call settled
listAllContainersStep(f, m, reached) ==
    LET r == listContainers(f.cur.service, f.all, reached)
        g == [f EXCEPT !.calls = Called(f, r.ok)]
    IN  IF r.ok
        THEN NextEntry([g EXCEPT !.acc = g.acc \o r.value], m)
        ELSE NextEntry(g, m)   \* catch: console.error

\* listAllImages / listAllNetworks / listAllVolumes
GroupCall(op, service, reached) ==
    CASE op = "listAllImages" -> listImages(service, reached)
      [] op = "listAllNetworks" -> listNetworks(service, reached)
      [] op = "listAllVolumes" -> listVolumes(service, reached)

listAllGroupedStep(f, m, reached) ==
    LET r == GroupCall(f.op, f.cur.service, reached)
        g == [f EXCEPT !.calls = Called(f, r.ok)]
    IN  IF r.ok
        THEN NextEntry([g EXCEPT !.acc =
                          Append(g.acc, [server |-> f.cur.name, items |-> r.value])], m)
        ELSE NextEntry(g, m)   \* catch: console.error

\* mutant: the identifier is compared with the id only
ContainerMatches_idOnly(c, containerId) == c.id = containerId

\* containers.find(c => c.id === containerId || c.name === containerId)
ContainerMatches(c, containerId) == c.id = containerId \/ c.name = containerId

\* mutant: a failing endpoint ends the search with "not found"
findContainerServiceStep_abort(f, m, reached) ==
    LET r == listContainers(f.cur.service, TRUE, reached)
        g == [f EXCEPT !.calls = Called(f, r.ok)]
    IN  IF r.ok
        THEN IF \E i \in 1..Len(r.value) : ContainerMatches(r.value[i], f.containerId)
             THEN [g EXCEPT !.status = "returned",
                            !.found = Found(f.cur.service, f.cur.name)]
             ELSE NextEntry(g, m)
        ELSE [g EXCEPT !.status = "returned", !.cur = NoEntry]

\* findContainerService: one turn of the loop body once the awaited call settled
findContainerServiceStep(f, m, reached) ==
    LET r == listContainers(f.cur.service, TRUE, reached)
        g == [f EXCEPT !.calls = Called(f, r.ok)]
    IN  IF r.ok
        THEN IF \E i \in 1..Len(r.value) : ContainerMatches(r.value[i], f.containerId)
             THEN [g EXCEPT !.status = "returned",
                            !.found = Found(f.cur.service, f.cur.name)]
             ELSE NextEntry(g, m)
        ELSE NextEntry(g, m)   \* catch: continue to next service

(***************************************************************************)
(* Registration order, as a history: ranks 1..n among the registered       *)
(* names by the time each was registered.                                  *)
(***************************************************************************)
RankAdd(r, k) ==
    IF r[k] # 0 THEN r
    ELSE [r EXCEPT ![k] = 1 + Cardinality({n \in DOMAIN r : r[n] # 0})]

RankRemove(r, k) ==
    IF k \notin DOMAIN r \/ r[k] = 0 THEN r
    ELSE [n \in DOMAIN r |->
            IF n = k THEN 0 ELSE IF r[n] > r[k] THEN r[n] - 1 ELSE r[n]]

(***************************************************************************)
(* Actions of the registry.                                                *)
(***************************************************************************)
\* a registry mutation may run while no fan-out is in flight or while one is
\* suspended at an await
MayMutate ==
    \/ fan.status = "idle"
    \/ fan.status = "awaiting" /\ fan.mutations < MaxInterleave

Interleaved(f) ==
    IF f.status = "awaiting" THEN [f EXCEPT !.mutations = f.mutations + 1] ELSE f

addDockerService(config) ==
    /\ MayMutate
    /\ LET service == NewDockerService(config)
       IN  /\ services' = MapSet(services, getName(service), service)
           /\ regRank' = RankAdd(regRank, getName(service))
           /\ lastAdd' = [name |-> getName(service),
                          replaced |-> MapHas(services, getName(service))]
           /\ lastWasAdd' = [lastWasAdd EXCEPT ![getName(service)] = TRUE]
           /\ ret' = Returned("addDockerService", getName(service), config, FALSE)
    /\ fan' = Interleaved(fan)
    /\ UNCHANGED composeVars

\* a live Map iterator is not disturbed by a delete: an entry deleted before
\* its position is simply no longer counted
IteratorAfterDelete(f, m, k) ==
    IF f.status = "awaiting" /\ MapHas(m, k) /\ MapIndex(m, k) <= f.pos
    THEN [f EXCEPT !.pos = f.pos - 1]
    ELSE f

removeDockerService(name) ==
    /\ MayMutate
    /\ services' = MapDelete(services, name)
    /\ regRank' = RankRemove(regRank, name)
    /\ UNCHANGED lastAdd
    /\ lastWasAdd' = [lastWasAdd EXCEPT ![name] = FALSE]
    /\ ret' = Returned("removeDockerService", name, NoConfig, MapDeleteResult(services, name))
    /\ fan' = Interleaved(IteratorAfterDelete(fan, services, name))
    /\ UNCHANGED composeVars

\* mutant: the live Map is handed out
getAllDockerServices_alias(m) == [alias |-> TRUE, entries |-> m]

\* DockerManager.getAllDockerServices: new Map(this.services), a Map of its
\* own over the same entries
getAllDockerServices(m) == [alias |-> FALSE, entries |-> m]

\* a synchronous read of the registry; it touches no fan-out, and is taken
\* here while none is in flight
MayRead == fan.status = "idle"

CallGetDockerService(name) ==
    /\ MayRead
    /\ ret' = Returned("getDockerService", name, NoConfig, getDockerService(services, name))
    /\ UNCHANGED <<services, regRank, lastAdd, lastWasAdd, fan>>
    /\ UNCHANGED composeVars

CallGetDockerServiceNames ==
    /\ MayRead
    /\ ret' = Returned("getDockerServiceNames", NoStr, NoConfig,
                       getDockerServiceNames(services))
    /\ UNCHANGED <<services, regRank, lastAdd, lastWasAdd, fan>>
    /\ UNCHANGED composeVars

CallGetAllDockerServices ==
    /\ MayRead
    /\ ret' = Returned("getAllDockerServices", NoStr, NoConfig,
                       getAllDockerServices(services))
    /\ UNCHANGED <<regRank, lastAdd, lastWasAdd, fan>>
    /\ UNCHANGED services
    /\ UNCHANGED composeVars

\* the caller deletes a key of the Map getAllDockerServices returned, or sets
\* one: the write lands in the registry only if that Map is the registry's
CallerWritesReturnedMap(name, delete) ==
    /\ MayRead
    /\ ret.op = "getAllDockerServices"
    /\ LET write(m) == IF delete THEN MapDelete(m, name)
                       ELSE MapSet(m, name, NoService)
       IN  /\ write(ret.value.entries) # ret.value.entries
           /\ ret' = [ret EXCEPT !.value.entries = write(ret.value.entries)]
           /\ services' = IF ret.value.alias THEN write(services) ELSE services
    /\ UNCHANGED <<regRank, lastAdd, lastWasAdd, fan>>
    /\ UNCHANGED composeVars

BeginFan(op, all, containerId) ==
    NextEntry([IdleFan EXCEPT !.op = op, !.status = "running", !.all = all,
                              !.containerId = containerId, !.snapshot = services],
              services)

listAllContainers(all) ==
    /\ fan.status = "idle"
    /\ fan' = BeginFan("listAllContainers", all, NoStr)
    /\ UNCHANGED registry
    /\ ret' = NoReturn
    /\ UNCHANGED composeVars

listAllImages ==
    /\ fan.status = "idle"
    /\ fan' = BeginFan("listAllImages", FALSE, NoStr)
    /\ UNCHANGED registry
    /\ ret' = NoReturn
    /\ UNCHANGED composeVars

listAllNetworks ==
    /\ fan.status = "idle"
    /\ fan' = BeginFan("listAllNetworks", FALSE, NoStr)
    /\ UNCHANGED registry
    /\ ret' = NoReturn
    /\ UNCHANGED composeVars

listAllVolumes ==
    /\ fan.status = "idle"
    /\ fan' = BeginFan("listAllVolumes", FALSE, NoStr)
    /\ UNCHANGED registry
    /\ ret' = NoReturn
    /\ UNCHANGED composeVars

findContainerService(containerId) ==
    /\ fan.status = "idle"
    /\ fan' = BeginFan("findContainerService", FALSE, containerId)
    /\ UNCHANGED registry
    /\ ret' = NoReturn
    /\ UNCHANGED composeVars

\* the awaited per-endpoint call settles and the loop goes on
FanResume(reached) ==
    /\ fan.status = "awaiting"
    /\ fan' = CASE fan.op = "listAllContainers" ->
                     listAllContainersStep(fan, services, reached)
                [] fan.op = "findContainerService" ->
                     findContainerServiceStep(fan, services, reached)
                [] OTHER -> listAllGroupedStep(fan, services, reached)
    /\ UNCHANGED registry
    /\ ret' = NoReturn
    /\ UNCHANGED composeVars

\* the caller takes the result
FanDone ==
    /\ fan.status \in {"returned", "raised"}
    /\ fan' = IdleFan
    /\ UNCHANGED registry
    /\ ret' = NoReturn
    /\ UNCHANGED composeVars

(***************************************************************************)
(* Compose lifecycle: runDockerCompose / runDockerComposeDown.             *)
(* An invocation is [kind, content, projectName, filePath, args, child,    *)
(* exitCode, promise, reason, unlinkFailed, uncaught]:                     *)
(*   child    the spawned process as the listeners see it: "spawned" (it   *)
(*            runs), "spawnFailed" (it could not be launched, 'error' is   *)
(*            due), "errored" ('error' was emitted, 'close' is due),       *)
(*            "closed" ('close' was emitted);                               *)
(*   promise  "pending", "fulfilled" or "rejected", settled once;          *)
(*   uncaught an exception left the 'close' listener.                      *)
(***************************************************************************)
TmpDir == "/tmp"
Contents == {"yaml-1", "yaml-2"}
ProjectNames == {"", "proj"}
\* exit codes of a launched process
ExitCodes == {0, 1, 137}
\* the code 'close' carries after a failed launch (the negative errno)
SpawnErrno == -2
SpawnError == "spawn docker-compose ENOENT"

NoCode == -1

\* `docker-compose-${Date.now()}.yml` in os.tmpdir()
ComposeFilePath(t) == TmpDir \o "/" \o "docker-compose-" \o ToString(t) \o ".yml"

UpArgs(filePath, projectName) ==
    IF projectName # ""
    THEN << "-p", projectName, "-f", filePath, "up", "-d" >>
    ELSE << "-f", filePath, "up", "-d" >>

DownArgs(projectName) == << "-p", projectName, "down", "-v" >>

FileExists(files, path) == \E f \in files : f.path = path

\* fs.writeFileSync: creates the file or replaces its content
writeFileSync(files, path, content, writer) ==
    {f \in files : f.path # path}
        \cup {[path |-> path, content |-> content, writer |-> writer]}

\* fs.unlinkSync on a file that exists (it throws ENOENT otherwise)
unlinkSync(files, path) == {f \in files : f.path # path}

\* mutant: a later resolve or reject replaces the outcome
Settle_overwrite(i, promise, reason) ==
    [i EXCEPT !.promise = promise, !.reason = reason]

\* resolve() / reject(): a settled promise stays as it is
Settle(i, promise, reason) ==
    IF i.promise = "pending"
    THEN [i EXCEPT !.promise = promise, !.reason = reason]
    ELSE i

UpExitMessage(code) == "docker-compose exited with code " \o ToString(code)
DownExitMessage(code) == "docker-compose down exited with code " \o ToString(code)

\* the 'close' listener of runDockerCompose, the unlink having succeeded
UpOnClose(i, code) ==
    IF code = 0 THEN Settle(i, "fulfilled", "")
    ELSE Settle(i, "rejected", UpExitMessage(code))

\* the 'close' listener of runDockerComposeDown
DownOnClose(i, code) ==
    IF code = 0 THEN Settle(i, "fulfilled", "")
    ELSE Settle(i, "rejected", DownExitMessage(code))

\* the 'error' listener of both: reject
OnError(i) == Settle(i, "rejected", SpawnError)

Tick ==
    /\ now < MaxTime
    /\ now' = now + 1
    /\ UNCHANGED <<tmpFiles, inv>>
    /\ UNCHANGED regVars

runDockerCompose(content, projectName, launched) ==
    /\ Len(inv) < MaxInvocations
    /\ LET filePath == ComposeFilePath(now)
       IN  /\ tmpFiles' = writeFileSync(tmpFiles, filePath, content, Len(inv) + 1)
           /\ inv' = Append(inv,
                 [kind |-> "up", content |-> content, projectName |-> projectName,
                  filePath |-> filePath, args |-> UpArgs(filePath, projectName),
                  child |-> IF launched THEN "spawned" ELSE "spawnFailed",
                  exitCode |-> NoCode, promise |-> "pending", reason |-> "",
                  unlinkFailed |-> FALSE, uncaught |-> FALSE])
    /\ UNCHANGED now
    /\ UNCHANGED regVars

runDockerComposeDown(projectName, launched) ==
    /\ Len(inv) < MaxInvocations
    /\ inv' = Append(inv,
          [kind |-> "down", content |-> "", projectName |-> projectName,
           filePath |-> "", args |-> DownArgs(projectName),
           child |-> IF launched THEN "spawned" ELSE "spawnFailed",
           exitCode |-> NoCode, promise |-> "pending", reason |-> "",
           unlinkFailed |-> FALSE, uncaught |-> FALSE])
    /\ UNCHANGED <<now, tmpFiles>>
    /\ UNCHANGED regVars

\* the child emits 'error': it could not be launched
ChildError(n) ==
    /\ inv[n].child = "spawnFailed"
    /\ inv' = [inv EXCEPT ![n] = [OnError(inv[n]) EXCEPT !.child = "errored"]]
    /\ UNCHANGED <<now, tmpFiles>>
    /\ UNCHANGED regVars

\* the child emits 'close': with its exit code, or after 'error' with the errno
ChildClose(n, code) ==
    /\ \/ inv[n].child = "spawned" /\ code \in ExitCodes
       \/ inv[n].child = "errored" /\ code = SpawnErrno
    /\ LET closed == [inv[n] EXCEPT !.child = "closed", !.exitCode = code]
       IN  IF inv[n].kind = "down"
           THEN /\ inv' = [inv EXCEPT ![n] = DownOnClose(closed, code)]
                /\ UNCHANGED tmpFiles
           ELSE IF FileExists(tmpFiles, inv[n].filePath)
           THEN /\ tmpFiles' = unlinkSync(tmpFiles, inv[n].filePath)
                /\ inv' = [inv EXCEPT ![n] = UpOnClose(closed, code)]
           ELSE \* unlinkSync throws out of the listener: nothing settles
                /\ inv' = [inv EXCEPT ![n] =
                              [closed EXCEPT !.unlinkFailed = TRUE, !.uncaught = TRUE]]
                /\ UNCHANGED tmpFiles
    /\ UNCHANGED now
    /\ UNCHANGED regVars

\* the rest of the state, left alone by the registry and compose operations
Apart == UNCHANGED <<ctorVars, toolVars, callVars, bootVars>>

NextCompose ==
    \/ Tick /\ Apart
    \/ \E content \in Contents, projectName \in ProjectNames, launched \in BOOLEAN :
          runDockerCompose(content, projectName, launched) /\ Apart
    \/ \E projectName \in ProjectNames \ {""}, launched \in BOOLEAN :
          runDockerComposeDown(projectName, launched) /\ Apart
    \/ \E n \in 1..Len(inv) : ChildError(n) /\ Apart
    \/ \E n \in 1..Len(inv), code \in ExitCodes \cup {SpawnErrno} :
          ChildClose(n, code) /\ Apart

(***************************************************************************)
(* One connection from its construction on: new DockerService(config),     *)
(* getName and getConfig.  `ctor` is [supplied, given, held, outcome,      *)
(* service, names]: whether a configuration was passed, the configuration  *)
(* as passed, the configuration object the caller holds now, "none" or     *)
(* "constructed", the connection, and what getName has returned so far.    *)
(***************************************************************************)
WinPath == <<"\\", "s", "/", "t">>

\* the configurations a caller can pass to the constructor
AnyConfigs ==
    {Config(name, host, port, protocol, socketPath, ca, cert, key) :
        name \in {NoStr, S_a}, host \in {NoStr, S_h}, port \in {0, 2376},
        protocol \in {"", "https"}, socketPath \in {NoStr, SockPath, WinPath},
        ca \in {"", "ca"}, cert \in {"", "cert"}, key \in {"", "key"}}

NoCtor ==
    [supplied |-> FALSE, given |-> NoConfig, held |-> NoConfig, outcome |-> "none",
     service |-> NoService, names |-> << >>]

\* DockerService.getConfig: a copy of the connection's configuration
getConfig(service) == service.config

\* new DockerService(config), or new DockerService() with the default parameter {}
Construct(supplied, config) ==
    /\ ctor.outcome = "none"
    /\ ctor' = [supplied |-> supplied, given |-> config, held |-> config,
                outcome |-> "constructed", service |-> NewDockerService(config),
                names |-> << >>]
    /\ UNCHANGED <<regVars, composeVars, toolVars, callVars, bootVars>>

CallGetName ==
    /\ ctor.outcome = "constructed"
    /\ Len(ctor.names) < MaxGetName
    /\ ctor' = [ctor EXCEPT !.names = Append(@, getName(ctor.service))]
    /\ UNCHANGED <<regVars, composeVars, toolVars, callVars, bootVars>>

\* the caller takes the copy getConfig returns
CallGetConfig ==
    /\ ctor.outcome = "constructed"
    /\ ctor' = [ctor EXCEPT !.held = getConfig(ctor.service)]
    /\ UNCHANGED <<regVars, composeVars, toolVars, callVars, bootVars>>

\* the caller writes to the configuration object it holds: the connection
\* keeps its own copy ({ ...config }, { ...this.config })
CallerRenames(name) ==
    /\ ctor.outcome = "constructed"
    /\ ctor.held.name # name
    /\ ctor' = [ctor EXCEPT !.held.name = name]
    /\ UNCHANGED <<regVars, composeVars, toolVars, callVars, bootVars>>

NextService ==
    \/ \E config \in AnyConfigs : Construct(TRUE, config)
    \/ Construct(FALSE, NoConfig)
    \/ CallGetName
    \/ CallGetConfig
    \/ \E name \in {NoStr, S_zz} : CallerRenames(name)

(***************************************************************************)
(* The tool handlers (tools/index.ts) over the registry.  One handler is   *)
(* in flight at a time.  `tool` is [name, phase, containerId, serverName,  *)
(* all, target, inv, result]:                                              *)
(*   phase   "startup" (main() is registering the configured endpoints),   *)
(*           "idle", "finding" (awaiting findContainerService), "listing"  *)
(*           (awaiting a listAll fan-out), "calling" (awaiting an engine   *)
(*           request),                                                     *)
(*           "composing" (awaiting the compose promise), "done";           *)
(*   target  the { service, serverName } the handler resolved;             *)
(*   inv     the compose invocation it awaits;                             *)
(*   result  what the handler gave back: outcome "returned" with a text,   *)
(*           or "raised" when an exception left the handler.               *)
(* A text is [template, server, error]: its template literal, and what the *)
(* template interpolates as server name and as ${error}.                   *)
(***************************************************************************)
ContainerTools ==
    {"get_container_stats", "start_container", "stop_container", "restart_container",
     "remove_container", "inspect_container", "get_container_logs", "check_updates"}
ListTools == {"list_containers", "list_images", "list_networks", "list_volumes"}
ImageTools == {"pull_image", "remove_image"}
ComposeTools == {"run_docker_compose", "remove_docker_compose"}

\* the arguments the handlers are called with
ToolIdentifiers == {S_1, S_w, S_zz}
ServerArgs == {NoStr, S_a, S_h, S_zz}
\* the configurations main() registers before the tools are served
StartupConfigs == {CfgA, CfgB, CfgD}

\* the engine requests each service method makes, in order
EngineOps(t) ==
    CASE t = "get_container_stats" -> << "container.stats", "container.inspect" >>
      [] t = "start_container" -> << "container.start" >>
      [] t = "stop_container" -> << "container.stop" >>
      [] t = "restart_container" -> << "container.restart" >>
      [] t = "remove_container" -> << "container.remove" >>
      [] t = "inspect_container" -> << "container.inspect" >>
      [] t = "get_container_logs" -> << "container.logs" >>
      [] t = "check_updates" -> << "container.inspect", "pull", "listImages" >>
      [] t = "list_containers" -> << "listContainers" >>
      [] t = "list_images" -> << "listImages" >>
      [] t = "list_networks" -> << "listNetworks" >>
      [] t = "list_volumes" -> << "listVolumes" >>
      [] t = "pull_image" -> << "pull" >>
      [] t = "remove_image" -> << "image.remove" >>
      [] OTHER -> << >>

EngineCall(docker, op) == [docker |-> docker, op |-> op]

Text(template, server, error) ==
    [template |-> template, server |-> server, error |-> error]
NoText == Text("", NoStr, "")
NoResult == [outcome |-> "none", text |-> NoText]
Respond(text) == [outcome |-> "returned", text |-> text]
Escaped(error) == [outcome |-> "raised", text |-> Text("", NoStr, error)]

\* the errors a handler meets
EngineError == "engine request failed"
ServerNotFound == "Error: Docker server '${serverName}' not found. Available servers: ${names}"
ContainerNotFound == "Error: Container '${containerId}' not found on any Docker server"

ServerNotFoundText(serverName) ==
    Text("Docker server '${serverName}' not found. Available servers: ${names}",
         serverName, "")

\* the text in the catch block of each handler
ErrorText(t, error) ==
    LET template ==
            CASE t = "check_updates" -> "Error checking container version: ${error}"
              [] t = "run_docker_compose" -> "Error running Docker Compose: ${error}"
              [] t = "remove_docker_compose" ->
                    "Error removing Docker Compose project: ${error}"
              [] OTHER -> "Error: ${error}"
    IN  Text(template, NoStr, error)

\* the text each handler returns when all its calls succeeded
SuccessText(t, serverName) ==
    CASE t = "get_container_stats" ->
            Text("JSON.stringify({ ...stats, dockerServer: result.serverName })", serverName, "")
      [] t = "start_container" ->
            Text("Container ${containerId} started successfully on ${result.serverName}", serverName, "")
      [] t = "stop_container" ->
            Text("Container ${containerId} stopped successfully on ${result.serverName}", serverName, "")
      [] t = "restart_container" ->
            Text("Container ${containerId} restarted successfully on ${result.serverName}", serverName, "")
      [] t = "remove_container" ->
            Text("Container ${containerId} removed successfully from ${result.serverName}", serverName, "")
      [] t = "inspect_container" ->
            Text("JSON.stringify({ ...info, dockerServer: result.serverName })", serverName, "")
      [] t = "get_container_logs" ->
            Text("=== Logs from ${containerId} on ${result.serverName} ===\n${logs}", serverName, "")
      [] t = "check_updates" ->
            Text("Container '${containerId}' on ${detectedServer} is OUTDATED / UP-TO-DATE", serverName, "")
      [] t = "list_containers" -> Text("JSON.stringify(containers)", NoStr, "")
      [] t = "list_images" -> Text("JSON.stringify({ server: serverName, images })", serverName, "")
      [] t = "list_networks" -> Text("JSON.stringify({ server: serverName, networks })", serverName, "")
      [] t = "list_volumes" -> Text("JSON.stringify({ server: serverName, volumes })", serverName, "")
      [] t = "pull_image" ->
            Text("Image ${imageName} pulled successfully on ${serverName}", serverName, "")
      [] t = "remove_image" ->
            Text("Image ${imageId} removed successfully from ${serverName}", serverName, "")
      [] t = "run_docker_compose" ->
            Text("Docker Compose deployed successfully on ${serverName}", serverName, "")
      [] t = "remove_docker_compose" ->
            Text("Docker Compose project '${projectName}' removed from ${serverName}", serverName, "")
      [] OTHER -> NoText

\* what listAll* gave, as the list tools print it
AllText == Text("JSON.stringify(all)", NoStr, "")
NoPulledImageText == Text("Could not find pulled image ${imageName} in image list", NoStr, "")

StartupTool ==
    [name |-> "", phase |-> "startup", containerId |-> NoStr, serverName |-> NoStr,
     all |-> FALSE, target |-> NotFound, inv |-> 0, result |-> NoResult]
IdleTool == [StartupTool EXCEPT !.phase = "idle"]

Invoked(t, containerId, serverName, all) ==
    [IdleTool EXCEPT !.name = t, !.containerId = containerId,
                     !.serverName = serverName, !.all = all]

\* the handler has its service and awaits the first engine request on it
Calling(tl, target) == [tl EXCEPT !.phase = "calling", !.target = target]
FirstCall(t, target) == << EngineCall(target.service.docker, EngineOps(t)[1]) >>
Done(tl, result) == [tl EXCEPT !.phase = "done", !.result = result]

\* mutant: an unknown server name falls back to the first registered endpoint
getServiceForContainer_fallback(m, serverName) ==
    IF MapHas(m, serverName) THEN Found(MapGet(m, serverName), serverName)
    ELSE IF Len(m) > 0 THEN Found(m[1].service, m[1].name) ELSE NotFound

\* getServiceForContainer with a server name: { service, serverName }, or
\* (NotFound) the throw of "Docker server ... not found"
getServiceForContainer(m, serverName) ==
    IF getDockerService(m, serverName) # NoService
    THEN Found(getDockerService(m, serverName), serverName)
    ELSE NotFound

\* main(): dockerManager.addDockerService(config) for each configured endpoint
RegisterAtStartup(config) ==
    /\ tool.phase = "startup"
    /\ addDockerService(config)
    /\ UNCHANGED <<ctorVars, callVars, bootVars, toolVars>>

\* main(): the tools are set up and the server connects
ServerConnect ==
    /\ tool.phase = "startup"
    /\ tool' = IdleTool
    /\ UNCHANGED <<regVars, composeVars, ctorVars, callVars, bootVars, engine>>

\* a container tool, up to its first await
ContainerTool(t, containerId, serverName) ==
    /\ tool.phase = "idle"
    /\ IF serverName # NoStr
       THEN LET r == getServiceForContainer(services, serverName)
                tl == Invoked(t, containerId, serverName, FALSE)
            IN  /\ IF r.found
                   THEN /\ tool' = Calling(tl, r)
                        /\ engine' = FirstCall(t, r)
                   ELSE /\ tool' = Done(tl, Respond(ErrorText(t, ServerNotFound)))
                        /\ engine' = << >>
                /\ UNCHANGED <<regVars, composeVars>>
       ELSE /\ findContainerService(containerId)
            /\ tool' = [Invoked(t, containerId, serverName, FALSE) EXCEPT !.phase = "finding"]
            /\ engine' = << >>
    /\ UNCHANGED <<ctorVars, callVars, bootVars>>

get_container_stats(containerId, serverName) ==
    ContainerTool("get_container_stats", containerId, serverName)
start_container(containerId, serverName) ==
    ContainerTool("start_container", containerId, serverName)
stop_container(containerId, serverName) ==
    ContainerTool("stop_container", containerId, serverName)
restart_container(containerId, serverName) ==
    ContainerTool("restart_container", containerId, serverName)
remove_container(containerId, serverName) ==
    ContainerTool("remove_container", containerId, serverName)
inspect_container(containerId, serverName) ==
    ContainerTool("inspect_container", containerId, serverName)
get_container_logs(containerId, serverName) ==
    ContainerTool("get_container_logs", containerId, serverName)
check_updates(containerId, serverName) ==
    ContainerTool("check_updates", containerId, serverName)

\* getServiceForContainer after `await dockerManager.findContainerService(...)`
ContainerToolResolved ==
    /\ tool.phase = "finding"
    /\ FanDone
    /\ IF fan.status = "returned" /\ fan.found.found
       THEN /\ tool' = Calling(tool, fan.found)
            /\ engine' = FirstCall(tool.name, fan.found)
       ELSE /\ tool' = Done(tool, Respond(ErrorText(tool.name, ContainerNotFound)))
            /\ engine' = << >>
    /\ UNCHANGED <<ctorVars, callVars, bootVars>>

\* a list tool, up to its first await
ListTool(t, all, serverName) ==
    /\ tool.phase = "idle"
    /\ IF serverName # NoStr
       THEN LET service == getDockerService(services, serverName)
                tl == Invoked(t, NoStr, serverName, all)
            IN  /\ IF service # NoService
                   THEN /\ tool' = Calling(tl, Found(service, serverName))
                        /\ engine' = FirstCall(t, Found(service, serverName))
                   ELSE /\ tool' = Done(tl, Respond(ServerNotFoundText(serverName)))
                        /\ engine' = << >>
                /\ UNCHANGED <<regVars, composeVars>>
       ELSE /\ CASE t = "list_containers" -> listAllContainers(all)
              [] t = "list_images" -> listAllImages
              [] t = "list_networks" -> listAllNetworks
              [] OTHER -> listAllVolumes
            /\ tool' = [Invoked(t, NoStr, serverName, all) EXCEPT !.phase = "listing"]
            /\ engine' = << >>
    /\ UNCHANGED <<ctorVars, callVars, bootVars>>

list_containers(all, serverName) == ListTool("list_containers", all, serverName)
list_images(serverName) == ListTool("list_images", FALSE, serverName)
list_networks(serverName) == ListTool("list_networks", FALSE, serverName)
list_volumes(serverName) == ListTool("list_volumes", FALSE, serverName)

\* a list tool after `await dockerManager.listAll*()`
ListToolCollected ==
    /\ tool.phase = "listing"
    /\ FanDone
    /\ tool' = Done(tool, IF fan.status = "returned" THEN Respond(AllText)
                          ELSE Escaped(EngineError))
    /\ UNCHANGED <<ctorVars, callVars, bootVars, engine>>

\* pull_image, remove_image: the server name is required
ImageTool(t, serverName) ==
    /\ tool.phase = "idle"
    /\ LET service == getDockerService(services, serverName)
           tl == Invoked(t, NoStr, serverName, FALSE)
       IN  IF service # NoService
           THEN /\ tool' = Calling(tl, Found(service, serverName))
                /\ engine' = FirstCall(t, Found(service, serverName))
           ELSE /\ tool' = Done(tl, Respond(ServerNotFoundText(serverName)))
                /\ engine' = << >>
    /\ UNCHANGED <<regVars, composeVars, ctorVars, callVars, bootVars>>

pull_image(serverName) == ImageTool("pull_image", serverName)
remove_image(serverName) == ImageTool("remove_image", serverName)

\* an engine request failed inside the handler: caught and turned into a text
\* where the handler has a try/catch around the call, raised on where not
Thrown(t, error) ==
    IF t \in ListTools THEN Escaped(error) ELSE Respond(ErrorText(t, error))

\* the awaited engine request settles and the handler goes on
EngineReply(reached) ==
    /\ tool.phase = "calling"
    /\ LET t == tool.name
           docker == tool.target.service.docker
       IN  IF ~reached
           THEN /\ tool' = Done(tool, Thrown(t, EngineError))
                /\ UNCHANGED engine
           ELSE IF Len(engine) < Len(EngineOps(t))
           THEN /\ engine' = Append(engine, EngineCall(docker, EngineOps(t)[Len(engine) + 1]))
                /\ UNCHANGED tool
           ELSE /\ tool' = Done(tool,
                     IF t = "check_updates" /\ EngineImages(docker) = << >>
                     THEN Respond(NoPulledImageText)
                     ELSE Respond(SuccessText(t, tool.target.serverName)))
                /\ UNCHANGED engine
    /\ UNCHANGED <<regVars, composeVars, ctorVars, callVars, bootVars>>

\* the caller has the handler's result
ToolReturn ==
    /\ tool.phase = "done"
    /\ tool' = IdleTool
    /\ engine' = << >>
    /\ UNCHANGED <<regVars, composeVars, ctorVars, callVars, bootVars>>

NextTools ==
    \/ \E config \in StartupConfigs : RegisterAtStartup(config)
    \/ ServerConnect
    \/ \E containerId \in ToolIdentifiers, serverName \in ServerArgs :
          \/ get_container_stats(containerId, serverName)
          \/ start_container(containerId, serverName)
          \/ stop_container(containerId, serverName)
          \/ restart_container(containerId, serverName)
          \/ remove_container(containerId, serverName)
          \/ inspect_container(containerId, serverName)
          \/ get_container_logs(containerId, serverName)
          \/ check_updates(containerId, serverName)
    \/ \E all \in BOOLEAN, serverName \in ServerArgs : list_containers(all, serverName)
    \/ \E serverName \in ServerArgs :
          \/ list_images(serverName)
          \/ list_networks(serverName)
          \/ list_volumes(serverName)
          \/ pull_image(serverName)
          \/ remove_image(serverName)
    \/ \E reached \in BOOLEAN : FanResume(reached) /\ Apart
    \/ ContainerToolResolved
    \/ ListToolCollected
    \/ \E reached \in BOOLEAN : EngineReply(reached)
    \/ ToolReturn

\* the remove_docker_server handler, run while another handler is suspended
\* at an await
remove_docker_server(name) ==
    /\ tool.phase \in {"finding", "listing", "calling"}
    /\ removeDockerService(name)
    /\ UNCHANGED <<ctorVars, callVars, bootVars, toolVars>>

NextToolsConcurrent ==
    \/ NextTools
    \/ \E name \in ServiceNames : remove_docker_server(name)

(***************************************************************************)
(* The compose tools: run_docker_compose and remove_docker_compose.        *)
(***************************************************************************)
\* spawn('docker-compose', args, { cwd: tempDir }): the options
SpawnOptions == [cwd |-> TmpDir]

\* the engine a spawned docker-compose talks to: the one a -H / --host
\* argument or the env option names, else the default of the server process
ProcessDefault == DockerOpts("default", NoStr, NoStr, 0, "", "", "", "")

SpawnedEngine(args, options) ==
    IF \E i \in 1..(Len(args) - 1) : args[i] \in {"-H", "--host"}
    THEN LET i == CHOOSE j \in 1..(Len(args) - 1) : args[j] \in {"-H", "--host"}
         IN  DockerOpts("cli", NoStr, << args[i + 1] >>, 0, "", "", "", "")
    ELSE IF "env" \in DOMAIN options
    THEN DockerOpts("env", NoStr, << options.env >>, 0, "", "", "", "")
    ELSE ProcessDefault

\* a compose tool, up to its await
ComposeTool(t, content, projectName, serverName, launched) ==
    /\ tool.phase = "idle"
    /\ LET service == getDockerService(services, serverName)
           tl == Invoked(t, NoStr, serverName, FALSE)
       IN  IF service # NoService
           THEN /\ IF t = "run_docker_compose"
                   THEN runDockerCompose(content, projectName, launched)
                   ELSE runDockerComposeDown(projectName, launched)
                /\ tool' = [tl EXCEPT !.phase = "composing", !.inv = Len(inv) + 1,
                                      !.target = Found(service, serverName)]
                /\ engine' = << EngineCall(SpawnedEngine(inv'[Len(inv) + 1].args, SpawnOptions),
                                           "docker-compose") >>
           ELSE /\ tool' = Done(tl, Respond(ServerNotFoundText(serverName)))
                /\ engine' = << >>
                /\ UNCHANGED <<regVars, composeVars>>
    /\ UNCHANGED <<ctorVars, callVars, bootVars>>

run_docker_compose(content, projectName, serverName, launched) ==
    ComposeTool("run_docker_compose", content, projectName, serverName, launched)
remove_docker_compose(projectName, serverName, launched) ==
    ComposeTool("remove_docker_compose", "", projectName, serverName, launched)

\* the awaited compose promise settled
ComposeSettled ==
    /\ tool.phase = "composing"
    /\ inv[tool.inv].promise # "pending"
    /\ tool' = Done(tool, IF inv[tool.inv].promise = "fulfilled"
                          THEN Respond(SuccessText(tool.name, tool.serverName))
                          ELSE Respond(ErrorText(tool.name, inv[tool.inv].reason)))
    /\ UNCHANGED <<regVars, composeVars, ctorVars, callVars, bootVars, engine>>

NextComposeTools ==
    \/ \E config \in StartupConfigs : RegisterAtStartup(config)
    \/ ServerConnect
    \/ \E content \in Contents, projectName \in ProjectNames,
          serverName \in ServerArgs, launched \in BOOLEAN :
          run_docker_compose(content, projectName, serverName, launched)
    \/ \E projectName \in ProjectNames \ {""}, serverName \in ServerArgs,
          launched \in BOOLEAN :
          remove_docker_compose(projectName, serverName, launched)
    \/ \E n \in 1..Len(inv) : ChildError(n) /\ Apart
    \/ \E n \in 1..Len(inv), code \in ExitCodes \cup {SpawnErrno} :
          ChildClose(n, code) /\ Apart
    \/ ComposeSettled
    \/ ToolReturn

(***************************************************************************)
(* The container operations of one connection (services/docker.ts), each   *)
(* against the engine behind its client handle.  `world` is what every     *)
(* engine holds; `call` is [op, service, containerId, status, request,     *)
(* error, was, sample, value]:                                             *)
(*   status  "idle", "awaiting" (the request is with the engine),          *)
(*           "inspecting" (getContainerStats awaits container.inspect()),  *)
(*           "resolved" or "rejected";                                     *)
(*   request what the method handed to the client: [method, id, options];  *)
(*   was     history: the state the engine found the container in;         *)
(*   sample  the statistics the engine reported; value the method's result.*)
(***************************************************************************)
Dockers == {NewDockerService(c).docker : c \in Configs}

\* the engine resolves the identifier of docker.getContainer(id): id or name
EngineResolve(containers, containerId) ==
    LET hits == {i \in 1..Len(containers) :
                    \/ containers[i].Id = containerId
                    \/ StripLeadingSlash(containers[i].Names[1]) = containerId}
    IN  IF hits = {} THEN 0 ELSE CHOOSE i \in hits : \A j \in hits : i <= j

RemoveAt(s, i) == SubSeq(s, 1, i - 1) \o SubSeq(s, i + 1, Len(s))

EngineResult(ok, error, containers, was) ==
    [ok |-> ok, error |-> error, containers |-> containers, was |-> was]

\* the engine serves a container request: 404 when the identifier does not
\* resolve, 409 when a running container is removed without force, 304 when
\* a start or stop finds the container already there
EngineHandle(containers, request) ==
    LET i == EngineResolve(containers, request.id)
        c == containers[i]
        set(state, status) ==
            [containers EXCEPT ![i] = [c EXCEPT !.State = state, !.Status = status]]
    IN  IF i = 0 THEN EngineResult(FALSE, "NotFound", containers, "none")
        ELSE CASE request.method = "remove" ->
                     IF c.State = "running" /\ ~request.options.force
                     THEN EngineResult(FALSE, "Conflict", containers, c.State)
                     ELSE EngineResult(TRUE, "", RemoveAt(containers, i), c.State)
               [] request.method = "start" ->
                     IF c.State = "running"
                     THEN EngineResult(FALSE, "NotModified", containers, c.State)
                     ELSE EngineResult(TRUE, "", set("running", "Up"), c.State)
               [] request.method = "stop" ->
                     IF c.State # "running"
                     THEN EngineResult(FALSE, "NotModified", containers, c.State)
                     ELSE EngineResult(TRUE, "", set("exited", "Exited (0)"), c.State)
               [] request.method = "restart" ->
                     EngineResult(TRUE, "", set("running", "Up"), c.State)

\* an optional boolean argument: passed or left out
ForceArgs ==
    {[given |-> FALSE, value |-> FALSE],
     [given |-> TRUE, value |-> FALSE],
     [given |-> TRUE, value |-> TRUE]}

\* force: boolean = false
DefaultForce(arg) == IF arg.given THEN arg.value ELSE FALSE

\* mutant: force is dropped on the way to the engine
RemoveOptions_dropped(force) == [force |-> FALSE]

\* container.remove({ force })
RemoveOptions(force) == [force |-> force]

NoOptions == [force |-> FALSE, stream |-> FALSE]

Request(method, id, options) == [method |-> method, id |-> id, options |-> options]

NoSample == [present |-> FALSE]

NoValue == [present |-> FALSE]

IdleCall ==
    [op |-> "none", service |-> NoService, containerId |-> NoStr, force |-> FALSE,
     status |-> "idle", request |-> Request("none", NoStr, NoOptions),
     error |-> "", was |-> "none", sample |-> NoSample, value |-> NoValue]

\* a method of the connection up to its await: docker.getContainer(id) and
\* the request on that container
CallBegins(op, service, containerId, force, request) ==
    /\ call.status = "idle"
    /\ call' = [IdleCall EXCEPT !.op = op, !.service = service,
                                !.containerId = containerId, !.force = force,
                                !.status = "awaiting", !.request = request]
    /\ UNCHANGED world
    /\ UNCHANGED <<regVars, composeVars, ctorVars, toolVars, bootVars>>

startContainer(service, containerId) ==
    CallBegins("startContainer", service, containerId, FALSE,
               Request("start", containerId, NoOptions))

stopContainer(service, containerId) ==
    CallBegins("stopContainer", service, containerId, FALSE,
               Request("stop", containerId, NoOptions))

restartContainer(service, containerId) ==
    CallBegins("restartContainer", service, containerId, FALSE,
               Request("restart", containerId, NoOptions))

removeContainer(service, containerId, forceArg) ==
    LET force == DefaultForce(forceArg)
    IN  CallBegins("removeContainer", service, containerId, force,
                   Request("remove", containerId, RemoveOptions(force)))

ContainerMethods ==
    {"startContainer", "stopContainer", "restartContainer", "removeContainer"}

\* the engine answers a start, stop, restart or remove, or cannot be reached;
\* the method returns nothing on success and lets the error through
EngineAnswers(reached) ==
    /\ call.status = "awaiting"
    /\ call.op \in ContainerMethods
    /\ LET d == call.service.docker
           r == EngineHandle(world[d], call.request)
       IN  IF reached
           THEN /\ world' = [world EXCEPT ![d] = r.containers]
                /\ call' = [call EXCEPT
                              !.status = IF r.ok THEN "resolved" ELSE "rejected",
                              !.error = r.error, !.was = r.was]
           ELSE /\ UNCHANGED world
                /\ call' = [call EXCEPT !.status = "rejected",
                                        !.error = "TransportFailure"]
    /\ UNCHANGED <<regVars, composeVars, ctorVars, toolVars, bootVars>>

\* the caller takes the outcome
CallReturns ==
    /\ call.status \in {"resolved", "rejected"}
    /\ call' = IdleCall
    /\ UNCHANGED world
    /\ UNCHANGED <<regVars, composeVars, ctorVars, toolVars, bootVars>>

(***************************************************************************)
(* getContainerStats.  A JavaScript number is [kind, num, den]: a finite   *)
(* value num/den in lowest terms with den > 0, or NaN, Infinity or         *)
(* -Infinity; `undefined` stands for a field the engine left out.  The     *)
(* readings below have quotients with power-of-two denominators, which     *)
(* IEEE doubles hold exactly, so the fraction is the double.               *)
(***************************************************************************)
Abs(n) == IF n < 0 THEN -n ELSE n

RECURSIVE Gcd(_, _)
Gcd(a, b) == IF b = 0 THEN a ELSE Gcd(b, a % b)

Fraction(n, d) ==
    LET g == Gcd(Abs(n), Abs(d))
        s == IF d < 0 THEN -1 ELSE 1
    IN  [kind |-> "finite", num |-> s * (n \div g), den |-> s * (d \div g)]

Number(n) == [kind |-> "finite", num |-> n, den |-> 1]

NaN == [kind |-> "NaN", num |-> 0, den |-> 1]

Infinity(negative) ==
    [kind |-> IF negative THEN "-Infinity" ELSE "Infinity", num |-> 0, den |-> 1]

undefined == [kind |-> "undefined", num |-> 0, den |-> 1]

\* a - b on integers read from the engine
Minus(a, b) ==
    IF a.kind # "finite" \/ b.kind # "finite" THEN NaN
    ELSE Number(a.num - b.num)

\* a / b on integers
Divide(a, b) ==
    CASE a.kind # "finite" \/ b.kind # "finite" -> NaN
      [] b.num = 0 /\ a.num = 0 -> NaN
      [] b.num = 0 -> Infinity(a.num < 0)
      [] OTHER -> Fraction(a.num, b.num)

\* a * b, b an integer
Times(a, b) ==
    CASE a.kind \in {"NaN", "undefined"} \/ b.kind # "finite" -> NaN
      [] a.kind \in {"Infinity", "-Infinity"} ->
            IF b.num = 0 THEN NaN
            ELSE Infinity((a.kind = "-Infinity") # (b.num < 0))
      [] OTHER -> LET g == Gcd(Abs(b.num), a.den)
                  IN  Fraction(a.num * (b.num \div g), a.den \div g)

\* x || 0 on a counter the engine may have left out
OrZero(x) == IF x.kind = "finite" /\ x.num # 0 THEN x ELSE Number(0)

CpuReadings ==
    {[total |-> 1000000, pretotal |-> 500000, system |-> 2000000,
      presystem |-> 1000000, online_cpus |-> 2],
     [total |-> 750000, pretotal |-> 500000, system |-> 2000000,
      presystem |-> 1000000, online_cpus |-> 4],
     [total |-> 500000, pretotal |-> 500000, system |-> 2000000,
      presystem |-> 1000000, online_cpus |-> 1],
     [total |-> 1000000, pretotal |-> 500000, system |-> 1000000,
      presystem |-> 1000000, online_cpus |-> 2],
     [total |-> 0, pretotal |-> 0, system |-> 0, presystem |-> 0, online_cpus |-> 0]}

\* memory_stats: `stats` may be missing, and so may its `cache`
MemoryReadings ==
    {[usage |-> 134217728, limit |-> 268435456, stats |-> TRUE,
      cache |-> Number(67108864)],
     [usage |-> 201326592, limit |-> 268435456, stats |-> TRUE, cache |-> Number(0)],
     [usage |-> 134217728, limit |-> 268435456, stats |-> TRUE, cache |-> undefined],
     [usage |-> 134217728, limit |-> 268435456, stats |-> FALSE, cache |-> undefined],
     [usage |-> 0, limit |-> 0, stats |-> TRUE, cache |-> Number(0)]}

NetworkReadings ==
    {[networks |-> TRUE, eth0 |-> TRUE, rx_bytes |-> Number(1024), tx_bytes |-> Number(2048)],
     [networks |-> TRUE, eth0 |-> TRUE, rx_bytes |-> Number(0), tx_bytes |-> Number(0)],
     [networks |-> TRUE, eth0 |-> FALSE, rx_bytes |-> undefined, tx_bytes |-> undefined],
     [networks |-> FALSE, eth0 |-> FALSE, rx_bytes |-> undefined, tx_bytes |-> undefined]}

\* what container.stats({ stream: false }) may resolve to
Samples ==
    {[present |-> TRUE, cpu |-> c, memory |-> m, net |-> n] :
        c \in CpuReadings, m \in MemoryReadings, n \in NetworkReadings}

cpuDelta(stats) == Minus(Number(stats.cpu.total), Number(stats.cpu.pretotal))

systemDelta(stats) == Minus(Number(stats.cpu.system), Number(stats.cpu.presystem))

\* mutant: the CPU share is not scaled by the number of CPUs
cpuPercentage_oneCpu(stats) ==
    Times(Divide(cpuDelta(stats), systemDelta(stats)), Number(100))

cpuPercentage(stats) ==
    Times(Times(Divide(cpuDelta(stats), systemDelta(stats)),
                Number(stats.cpu.online_cpus)), Number(100))

\* stats.memory_stats.stats.cache: reading it throws when `stats` is missing
CacheThrows(stats) == ~stats.memory.stats

memoryUsed(stats) == Minus(Number(stats.memory.usage), stats.memory.cache)

memoryLimit(stats) == Number(stats.memory.limit)

memoryPercentage(stats) ==
    Times(Divide(memoryUsed(stats), memoryLimit(stats)), Number(100))

\* stats.networks?.eth0?.rx_bytes || 0
networkIO(stats) ==
    [rx_bytes |-> IF stats.net.networks /\ stats.net.eth0
                  THEN OrZero(stats.net.rx_bytes) ELSE Number(0),
     tx_bytes |-> IF stats.net.networks /\ stats.net.eth0
                  THEN OrZero(stats.net.tx_bytes) ELSE Number(0)]

\* the object getContainerStats returns
ContainerStats(service, containerId, stats, inspected) ==
    [present |-> TRUE,
     id |-> containerId,
     name |-> StripLeadingSlash(inspected.Names[1]),
     cpuPercentage |-> cpuPercentage(stats),
     memoryUsage |-> [used |-> memoryUsed(stats),
                      limit |-> memoryLimit(stats),
                      percentage |-> memoryPercentage(stats)],
     networkIO |-> networkIO(stats),
     dockerServer |-> getName(service)]

\* getContainerStats up to its first await: container.stats({ stream: false })
getContainerStats(service, containerId) ==
    CallBegins("getContainerStats", service, containerId, FALSE,
               Request("stats", containerId, NoOptions))

\* the engine reports a sample; the percentages are computed and
\* container.inspect() is awaited for the name
StatsAnswers(reached, stats) ==
    /\ call.status = "awaiting"
    /\ call.op = "getContainerStats"
    /\ LET i == EngineResolve(world[call.service.docker], call.containerId)
       IN  call' =
             CASE ~reached ->
                     [call EXCEPT !.status = "rejected", !.error = "TransportFailure"]
               [] reached /\ i = 0 ->
                     [call EXCEPT !.status = "rejected", !.error = "NotFound"]
               [] reached /\ i # 0 /\ CacheThrows(stats) ->
                     [call EXCEPT !.status = "rejected", !.error = "TypeError",
                                  !.sample = stats]
               [] OTHER ->
                     [call EXCEPT !.status = "inspecting", !.sample = stats,
                                  !.request = Request("inspect", call.containerId,
                                                      NoOptions)]
    /\ UNCHANGED world
    /\ UNCHANGED <<regVars, composeVars, ctorVars, toolVars, bootVars>>

\* container.inspect() answers and the statistics are returned
InspectAnswers(reached) ==
    /\ call.status = "inspecting"
    /\ LET containers == world[call.service.docker]
           i == EngineResolve(containers, call.containerId)
       IN  call' =
             CASE ~reached ->
                     [call EXCEPT !.status = "rejected", !.error = "TransportFailure"]
               [] reached /\ i = 0 ->
                     [call EXCEPT !.status = "rejected", !.error = "NotFound"]
               [] OTHER ->
                     [call EXCEPT !.status = "resolved",
                                  !.value = ContainerStats(call.service, call.containerId,
                                                           call.sample, containers[i])]
    /\ UNCHANGED world
    /\ UNCHANGED <<regVars, composeVars, ctorVars, toolVars, bootVars>>

CallInit ==
    /\ call = IdleCall
    /\ world = [d \in Dockers |-> EngineContainers(d)]

(***************************************************************************)
(* Startup (index.ts): getDockerConfigs() reads the environment and main() *)
(* registers every configuration it returns.  An environment is            *)
(* [DOCKER_SERVERS, DOCKER_HOST, DOCKER_PORT, DOCKER_PROTOCOL,            *)
(* DOCKER_SOCKET, DOCKER_CERT_PATH, certFor, readable, socketExists]:      *)
(* unset variables are the empty string; certFor is the <NAME> of the one  *)
(* DOCKER_CERT_PATH_<NAME> that is set; readable are the .pem files that   *)
(* can be read; socketExists tells whether /var/run/docker.sock exists.    *)
(***************************************************************************)
S_primary == <<"p", "r", "i", "m", "a", "r", "y">>

Chars(str) ==
    CASE str = "a:h" -> <<"a", ":", "h">>
      [] str = "a" -> <<"a">>
      [] str = "a:h:1:https,h:g" ->
            <<"a", ":", "h", ":", "1", ":", "h", "t", "t", "p", "s", ",", "h", ":", "g">>
      [] str = "h:g:w, a:h" ->
            <<"h", ":", "g", ":", "w", ",", " ", "a", ":", "h">>
      [] OTHER -> << >>

RECURSIVE Split(_, _)
\* s.split(sep) for a one-character separator
Split(s, sep) ==
    LET at == {i \in 1..Len(s) : s[i] = sep}
    IN  IF at = {} THEN << s >>
        ELSE LET i == CHOOSE k \in at : \A j \in at : k <= j
             IN  << SubSeq(s, 1, i - 1) >> \o Split(SubSeq(s, i + 1, Len(s)), sep)

RECURSIVE Trim(_)
Trim(s) ==
    IF s # << >> /\ Head(s) = " " THEN Trim(Tail(s))
    ELSE IF s # << >> /\ s[Len(s)] = " " THEN Trim(SubSeq(s, 1, Len(s) - 1))
    ELSE s

Digit(c) ==
    CASE c = "0" -> 0 [] c = "1" -> 1 [] c = "2" -> 2 [] c = "3" -> 3 [] c = "4" -> 4
      [] c = "5" -> 5 [] c = "6" -> 6 [] c = "7" -> 7 [] c = "8" -> 8 [] c = "9" -> 9
      [] OTHER -> -1

RECURSIVE ParseDigits(_, _)
ParseDigits(s, acc) ==
    IF s = << >> \/ Digit(Head(s)) < 0 THEN acc
    ELSE ParseDigits(Tail(s), 10 * acc + Digit(Head(s)))

\* parseInt(s): the leading digits; NaN, which is falsy like 0, is 0 here
parseInt(s) == ParseDigits(s, 0)

\* parts[3] as a protocol
Protocol(s) ==
    CASE s = << >> -> ""
      [] s = <<"h", "t", "t", "p">> -> "http"
      [] s = <<"h", "t", "t", "p", "s">> -> "https"
      [] OTHER -> "other"

UpperChar(c) ==
    CASE c = "a" -> "A" [] c = "h" -> "H" [] c = "g" -> "G" [] OTHER -> c

toUpperCase(s) == [i \in 1..Len(s) |-> UpperChar(s[i])]

\* the three readFileSync calls in their try block: the first file that
\* cannot be read ends the block, what was read before it stays
ReadTls(config, readable) ==
    [config EXCEPT
        !.ca = IF "ca" \in readable THEN "ca" ELSE "",
        !.cert = IF {"ca", "cert"} \subseteq readable THEN "cert" ELSE "",
        !.key = IF {"ca", "cert", "key"} \subseteq readable THEN "key" ELSE ""]

\* one element of DOCKER_SERVERS: name:host:port:protocol
ServerConfig(env, serverConfig) ==
    LET parts == Split(Trim(serverConfig), ":")
        part(i) == IF i <= Len(parts) THEN parts[i] ELSE NoStr
        config == Config(part(1), part(2),
                         IF part(3) # NoStr THEN parseInt(part(3)) ELSE DefaultPort,
                         IF Protocol(part(4)) # "" THEN Protocol(part(4)) ELSE "http",
                         NoStr, "", "", "")
    IN  IF Len(parts) >= 2
        THEN << IF env.certFor # NoStr /\ env.certFor = toUpperCase(part(1))
                THEN ReadTls(config, env.readable) ELSE config >>
        ELSE << >>

RECURSIVE ServerConfigs(_, _)
ServerConfigs(env, serverConfigs) ==
    IF serverConfigs = << >> THEN << >>
    ELSE ServerConfig(env, Head(serverConfigs)) \o ServerConfigs(env, Tail(serverConfigs))

\* the single configuration used when DOCKER_SERVERS gives none
FallbackConfig(env) ==
    LET port == IF parseInt(env.DOCKER_PORT) # 0 THEN parseInt(env.DOCKER_PORT)
                ELSE DefaultPort
        dockerConfig ==
            IF env.DOCKER_HOST # NoStr
            THEN Config(S_primary, env.DOCKER_HOST, port, env.DOCKER_PROTOCOL,
                        NoStr, "", "", "")
            ELSE Config(S_localhost, S_localhost, port, "http", NoStr, "", "", "")
    IN  IF env.DOCKER_CERT_PATH THEN ReadTls(dockerConfig, env.readable)
        ELSE dockerConfig

getDockerConfigs(env) ==
    LET configs == IF env.DOCKER_SERVERS # ""
                   THEN ServerConfigs(env, Split(Chars(env.DOCKER_SERVERS), ","))
                   ELSE << >>
    IN  IF configs = << >> THEN << FallbackConfig(env) >> ELSE configs

RECURSIVE AddAll(_, _)
\* main(): dockerManager.addDockerService(config) for each configuration
AddAll(m, configs) ==
    IF configs = << >> THEN m
    ELSE LET service == NewDockerService(Head(configs))
         IN  AddAll(MapSet(m, getName(service), service), Tail(configs))

Environments ==
    [DOCKER_SERVERS : {"", "a", "a:h", "a:h:1:https,h:g", "h:g:w, a:h"},
     DOCKER_HOST : {NoStr, S_h},
     DOCKER_PORT : {NoStr, S_1, S_w},
     DOCKER_PROTOCOL : {"", "https"},
     DOCKER_SOCKET : {NoStr, SockPath},
     DOCKER_CERT_PATH : BOOLEAN,
     certFor : {NoStr, <<"A">>},
     readable : {{}, {"ca"}, {"ca", "cert", "key"}},
     socketExists : BOOLEAN]

NoBoot == [phase |-> "none", configs |-> << >>, services |-> << >>]

\* main() up to server.connect: nothing in it awaits before the endpoints
\* are registered
main(env) ==
    /\ boot.phase = "none"
    /\ boot' = [phase |-> "running", env |-> env,
                configs |-> getDockerConfigs(env),
                services |-> AddAll(<< >>, getDockerConfigs(env))]
    /\ UNCHANGED <<regVars, composeVars, ctorVars, toolVars, callVars>>

\* the process ends
Exit ==
    /\ boot.phase = "running"
    /\ boot' = [boot EXCEPT !.phase = "exited"]
    /\ UNCHANGED <<regVars, composeVars, ctorVars, toolVars, callVars>>

BootInit == boot = NoBoot

NextBoot ==
    \/ \E env \in Environments : main(env)
    \/ Exit

RegInit ==
    /\ services = << >>
    /\ regRank = [n \in ServiceNames |-> 0]
    /\ lastAdd = [name |-> NoStr, replaced |-> FALSE]
    /\ fan = IdleFan
    /\ lastWasAdd = [n \in ServiceNames \cup {S_zz} |-> FALSE]
    /\ ret = NoReturn

ComposeInit ==
    /\ now = 0
    /\ tmpFiles = {}
    /\ inv = << >>

ServiceInit == ctor = NoCtor

ToolInit ==
    /\ tool = StartupTool
    /\ engine = << >>

Init ==
    RegInit /\ ComposeInit /\ ServiceInit /\ ToolInit /\ CallInit /\ BootInit

Next ==
    \/ \E config \in Configs : addDockerService(config) /\ Apart
    \/ \E name \in ServiceNames \cup {S_zz} : removeDockerService(name) /\ Apart
    \/ \E all \in BOOLEAN : listAllContainers(all) /\ Apart
    \/ listAllImages /\ Apart
    \/ listAllNetworks /\ Apart
    \/ listAllVolumes /\ Apart
    \/ \E containerId \in Identifiers : findContainerService(containerId) /\ Apart
    \/ \E reached \in BOOLEAN : FanResume(reached) /\ Apart
    \/ FanDone /\ Apart

Spec == Init /\ [][Next]_vars

SpecCompose == Init /\ [][NextCompose]_vars

SpecService == Init /\ [][NextService]_vars

SpecTools == Init /\ [][NextTools]_vars

SpecComposeTools == Init /\ [][NextComposeTools]_vars

(***************************************************************************)
(* Properties of the compose lifecycle.                                    *)
(***************************************************************************)
\* the file invocation n wrote is still there
OwnFileExists(n) ==
    \E f \in tmpFiles : f.path = inv[n].filePath /\ f.writer = n

Deployments == {n \in 1..Len(inv) : inv[n].kind = "up"}

\* C5: once a runDockerCompose has finished (its promise has settled), the
\* temporary file it wrote no longer exists, on every exit path.
C5_TempFileGoneWhenFinished ==
    \A n \in Deployments : inv[n].promise # "pending" => ~OwnFileExists(n)

\* C6: the temporary file is deleted before the promise settles: every step
\* that settles the promise of a runDockerCompose leaves no file at its path.
C6_DeleteBeforeSettle ==
    [][\A n \in Deployments :
          (inv[n].promise = "pending" /\ inv'[n].promise # "pending")
              => ~FileExists(tmpFiles', inv[n].filePath)]_vars

\* C7: a compose operation succeeds if and only if the process exits with
\* code 0; another exit code yields a failure carrying that code, a failed
\* launch yields a failure carrying the spawn error.
C7_OutcomeFollowsExitCode ==
    \A n \in 1..Len(inv) :
        /\ inv[n].promise = "fulfilled" => inv[n].exitCode = 0
        /\ inv[n].child \in {"errored", "closed"} /\ inv[n].exitCode \notin ExitCodes
              => inv[n].promise = "rejected" /\ inv[n].reason = SpawnError
        /\ inv[n].child = "closed" /\ inv[n].exitCode = 0
              => inv[n].promise = "fulfilled"
        /\ inv[n].child = "closed" /\ inv[n].exitCode \in ExitCodes \ {0}
              => /\ inv[n].promise = "rejected"
                 /\ inv[n].reason = IF inv[n].kind = "up"
                                    THEN UpExitMessage(inv[n].exitCode)
                                    ELSE DownExitMessage(inv[n].exitCode)

\* C8: when deleting the temporary file fails, the deletion error is not
\* raised and the operation settles with the outcome of the compose process.
C8_UnlinkFailureNotRaised ==
    \A n \in Deployments :
        inv[n].unlinkFailed =>
            /\ ~inv[n].uncaught
            /\ inv[n].promise # "pending"
            /\ inv[n].exitCode = 0 <=> inv[n].promise = "fulfilled"

\* C9: two runDockerCompose invocations in progress at the same time never
\* use the same temporary file path.
C9_NoSharedTempFile ==
    \A m, n \in Deployments :
        (m # n /\ inv[m].child # "closed" /\ inv[n].child # "closed")
            => inv[m].filePath # inv[n].filePath

(***************************************************************************)
(* Properties of the fan-out operations.                                   *)
(***************************************************************************)
\* the fan-out has returned to its caller and no addDockerService or
\* removeDockerService ran while it was suspended
Undisturbed(op) ==
    fan.op = op /\ fan.status = "returned" /\ fan.mutations = 0

\* the full container list (stopped included) of a connection that answers
FullList(service) == listContainers(service, TRUE, TRUE).value

\* the connection holds a container whose id or name is the identifier
Holds(service, identifier) ==
    \E i \in 1..Len(FullList(service)) :
        \/ FullList(service)[i].id = identifier
        \/ FullList(service)[i].name = identifier

\* the call the fan-out made on the endpoint registered as `name` succeeded
CallSucceeded(name) ==
    \E j \in 1..Len(fan.calls) : fan.calls[j].name = name /\ fan.calls[j].ok

WasCalled(name) == \E j \in 1..Len(fan.calls) : fan.calls[j].name = name

RECURSIVE ConcatSucceeded(_, _)
ConcatSucceeded(calls, all) ==
    IF calls = << >> THEN << >>
    ELSE (IF Head(calls).ok
          THEN listContainers(Head(calls).service, all, TRUE).value
          ELSE << >>) \o ConcatSucceeded(Tail(calls), all)

\* C1: listAllContainers never raises, and it returns exactly the
\* concatenation, in registry order, of the lists of the endpoints whose call
\* succeeded: every registered endpoint is called once, in registry order, and
\* no entry of the result comes from an endpoint whose call failed.
C1_ListAllContainersIsolatesFailures ==
    /\ fan.op = "listAllContainers" => fan.status # "raised"
    /\ Undisturbed("listAllContainers") =>
          /\ Len(fan.calls) = Len(services)
          /\ \A i \in 1..Len(services) :
                /\ fan.calls[i].name = services[i].name
                /\ fan.calls[i].service = services[i].service
          /\ fan.acc = ConcatSucceeded(fan.calls, fan.all)
          /\ \A i \in 1..Len(fan.acc) : CallSucceeded(fan.acc[i].dockerServer)

\* C1 witness: a listing over several endpoints, one failing and one
\* contributing containers
C1_Witness ==
    /\ Undisturbed("listAllContainers")
    /\ Len(services) >= 2
    /\ \E j \in 1..Len(fan.calls) : ~fan.calls[j].ok
    /\ Len(fan.acc) > 0

\* C2: findContainerService returns a registered endpoint (the connection
\* and its registry name) whose full container list holds the identifier as
\* an id or a name, and returns null exactly when no registered endpoint
\* whose list call succeeds holds it.
C2_FindReturnsOwner ==
    Undisturbed("findContainerService") =>
        /\ fan.found.found =>
              \E i \in 1..Len(services) :
                  /\ services[i].name = fan.found.serverName
                  /\ services[i].service = fan.found.service
                  /\ Holds(services[i].service, fan.containerId)
        /\ ~fan.found.found <=>
              \A i \in 1..Len(services) :
                  ~(CallSucceeded(services[i].name)
                      /\ Holds(services[i].service, fan.containerId))
        /\ ~fan.found.found => \A i \in 1..Len(services) : WasCalled(services[i].name)

\* C2 witness: the identifier is found as the name of a stopped container
C2_Witness ==
    /\ Undisturbed("findContainerService")
    /\ fan.found.found
    /\ \E i \in 1..Len(FullList(fan.found.service)) :
          /\ FullList(fan.found.service)[i].name = fan.containerId
          /\ FullList(fan.found.service)[i].state = "exited"

\* C3: when several registered endpoints hold the identifier, the endpoint
\* returned is the one registered first: every endpoint registered before it
\* was asked and either failed or does not hold the identifier.  A name
\* registered again while present keeps its place; a name removed and added
\* again takes the last place.
C3_FindReturnsFirstRegistered ==
    (Undisturbed("findContainerService") /\ fan.found.found) =>
        /\ regRank[fan.found.serverName] # 0
        /\ \A i \in 1..Len(services) :
              regRank[services[i].name] < regRank[fan.found.serverName] =>
                  /\ WasCalled(services[i].name)
                  /\ ~(CallSucceeded(services[i].name)
                         /\ Holds(services[i].service, fan.containerId))

\* C3 witness: two registered endpoints hold the identifier and answer, and
\* the one returned is a name that the latest addDockerService registered
\* again while it was present
C3_Witness ==
    /\ Undisturbed("findContainerService")
    /\ fan.found.found
    /\ lastAdd.replaced
    /\ lastAdd.name = fan.found.serverName
    /\ Len(fan.calls) = 1
    /\ \A j \in 1..Len(fan.calls) : fan.calls[j].ok
    /\ Cardinality({i \in 1..Len(services) :
                      Holds(services[i].service, fan.containerId)}) >= 2

\* C4: in findContainerService an endpoint whose list call fails is skipped
\* and the search goes on: the call never raises, a failing endpoint that is
\* not the last is followed by a call on the next, a holder that answers
\* after a failure is returned, and when every call fails the result is null.
C4_FindSkipsFailingEndpoints ==
    /\ fan.op = "findContainerService" => fan.status # "raised"
    /\ Undisturbed("findContainerService") =>
          /\ \A j \in 1..Len(fan.calls) :
                (~fan.calls[j].ok /\ j < Len(services)) => Len(fan.calls) > j
          /\ (\E j \in 1..Len(fan.calls) :
                 fan.calls[j].ok /\ Holds(fan.calls[j].service, fan.containerId))
                => fan.found.found
          /\ (\A j \in 1..Len(fan.calls) : ~fan.calls[j].ok) =>
                (~fan.found.found /\ Len(fan.calls) = Len(services))

\* C4 witness: the first endpoint fails and a later one is returned
C4_Witness ==
    /\ Undisturbed("findContainerService")
    /\ Len(fan.calls) >= 2
    /\ ~fan.calls[1].ok
    /\ fan.found.found
    /\ fan.found.serverName = fan.calls[Len(fan.calls)].name

\* C10: a fan-out queries exactly the endpoints registered when it started,
\* whatever addDockerService or removeDockerService does at its await points
\* (findContainerService: those up to the one it returns).
C10_FanOutQueriesSnapshot ==
    fan.status = "returned" =>
        /\ Len(fan.calls) <= Len(fan.snapshot)
        /\ \A j \in 1..Len(fan.calls) :
              /\ fan.calls[j].name = fan.snapshot[j].name
              /\ fan.calls[j].service = fan.snapshot[j].service
        /\ (fan.op # "findContainerService" \/ ~fan.found.found) =>
              Len(fan.calls) = Len(fan.snapshot)

(***************************************************************************)
(* Properties of the registry methods.                                     *)
(***************************************************************************)
AllNames == ServiceNames \cup {S_zz}

Listed(n) ==
    \E i \in 1..Len(getDockerServiceNames(services)) :
        getDockerServiceNames(services)[i] = n

\* C11: getDockerServiceNames contains a name exactly when the latest add or
\* remove aimed at that name was an add; a new manager lists no name.
C11_NamesFollowLastOperation ==
    /\ \A n \in AllNames : Listed(n) <=> lastWasAdd[n]
    /\ \A i \in 1..Len(getDockerServiceNames(services)) :
          getDockerServiceNames(services)[i] \in AllNames

\* a removal just took a name out while another name stays listed
C11_Witness ==
    /\ ret.op = "removeDockerService"
    /\ ret.value
    /\ ~Listed(ret.name)
    /\ \E m \in AllNames : lastWasAdd[m] /\ Listed(m)

\* C12: removeDockerService(name) returns true exactly when an entry named
\* name existed just before, and then removes that entry and no other; when
\* none existed it returns false and every entry stays as it was.
C12_RemoveReportsExistence ==
    [][ret'.op = "removeDockerService" =>
         LET name == ret'.name
             existed == \E i \in 1..Len(services) : services[i].name = name
         IN  /\ ret'.value = existed
             /\ ~existed => services' = services
             /\ existed =>
                   /\ Len(services') = Len(services) - 1
                   /\ \A i \in 1..Len(services') : services'[i].name # name
                   /\ \A i \in 1..Len(services) :
                         services[i].name # name =>
                             \E j \in 1..Len(services') : services'[j] = services[i]
      ]_vars

\* a removal returned true and left two other entries in place
C12_Witness ==
    /\ ret.op = "removeDockerService"
    /\ ret.value
    /\ Len(services) = 2

\* C13: addDockerService with a configuration whose resolved name is already
\* registered replaces that entry: the name then maps to the connection just
\* constructed, the number of entries and all other entries are unchanged.
C13_AddOverwrites ==
    [][(/\ ret'.op = "addDockerService"
        /\ \E i \in 1..Len(services) : services[i].name = ret'.name) =>
         /\ getDockerService(services', ret'.name) = NewDockerService(ret'.config)
         /\ Len(services') = Len(services)
         /\ \A i \in 1..Len(services) :
               services[i].name # ret'.name => services'[i] = services[i]
      ]_vars

\* the entry "h" made from CfgB was replaced by the connection made from CfgD
C13_Witness ==
    /\ ret.op = "addDockerService"
    /\ ret.config = CfgD
    /\ lastAdd.replaced
    /\ Len(services) >= 2
    /\ getDockerService(services, S_h) = NewDockerService(CfgD)

(***************************************************************************)
(* Properties of the connection's construction.                            *)
(***************************************************************************)
ExpectedName(c) ==
    IF c.name # NoStr THEN c.name
    ELSE IF c.socketPath # NoStr
         THEN S_socket_ \o [i \in 1..Len(c.socketPath) |->
                               IF c.socketPath[i] = "/" \/ c.socketPath[i] = "\\"
                               THEN "_" ELSE c.socketPath[i]]
         ELSE IF c.host # NoStr THEN c.host ELSE S_localhost

\* C19: getName returns the configured name unchanged; without a name,
\* 'socket-' and the socket path with every '/' and '\' replaced by '_';
\* without name and socket path, the host; with none of them 'localhost';
\* and every later call returns the same, whatever the caller does to the
\* configuration objects it holds.
C19_NameFixedAtConstruction ==
    ctor.outcome = "constructed" =>
        /\ \A i \in 1..Len(ctor.names) : ctor.names[i] = ExpectedName(ctor.given)
        /\ getName(ctor.service) = ExpectedName(ctor.given)
        /\ (ctor.given.name = NoStr /\ ctor.given.socketPath = WinPath) =>
              getName(ctor.service) = S_socket_ \o <<"_", "s", "_", "t">>

\* a nameless connection on the socket path \s/t was asked twice for its name,
\* the second time after the caller renamed the configuration it holds
C19_Witness ==
    /\ ctor.outcome = "constructed"
    /\ ctor.given.name = NoStr
    /\ ctor.given.socketPath = WinPath
    /\ ctor.held.name = S_zz
    /\ Len(ctor.names) >= 2
    /\ ctor.names[2] = S_socket_ \o <<"_", "s", "_", "t">>

\* C20: a connection is never constructed from a supplied configuration
\* that has neither socket path nor host, and the local default engine is
\* chosen only when no configuration was supplied.
C20_NoSilentLocalDefault ==
    ctor.outcome = "constructed" =>
        /\ ctor.supplied => (ctor.given.socketPath # NoStr \/ ctor.given.host # NoStr)
        /\ ctor.service.docker.mode = "default" => ~ctor.supplied

(***************************************************************************)
(* Properties of the tool handlers.                                        *)
(***************************************************************************)
Registered(name) == \E i \in 1..Len(services) : services[i].name = name

RegisteredDocker(name) ==
    services[CHOOSE i \in 1..Len(services) : services[i].name = name].service.docker

AllCallsOn(log, docker) == \A i \in 1..Len(log) : log[i].docker = docker

C15_InEveryState ==
    tool.name \in ContainerTools =>
        /\ (tool.serverName # NoStr /\ Registered(tool.serverName)) =>
              AllCallsOn(engine, RegisteredDocker(tool.serverName))
        /\ (tool.serverName # NoStr /\ ~Registered(tool.serverName)) => engine = << >>
        /\ (tool.serverName = NoStr /\ tool.phase = "finding") => engine = << >>
        /\ (tool.serverName = NoStr /\ ~tool.target.found) => engine = << >>
        /\ \A i, j \in 1..Len(engine) : engine[i].docker = engine[j].docker

C15_WhenFindReturns ==
    (tool.phase = "finding" /\ tool'.phase # "finding") =>
        IF fan.status = "returned" /\ fan.found.found
        THEN /\ engine' # << >>
             /\ AllCallsOn(engine', fan.found.service.docker)
        ELSE /\ engine' = << >>
             /\ tool'.phase = "done"

\* C15: a container tool given a server name sends its engine requests only
\* to the endpoint registered under that name, and none when the name is not
\* registered; given none, it sends them to the endpoint findContainerService
\* returned, and none when that returned absence.
C15_ContainerToolsCallResolvedEndpoint ==
    []C15_InEveryState /\ [][C15_WhenFindReturns]_vars

\* check_updates without a server name made its three requests on an
\* endpoint that is not the first registered one
C15_Witness ==
    /\ tool.name = "check_updates"
    /\ tool.serverName = NoStr
    /\ Len(engine) = 3
    /\ Len(services) >= 2
    /\ engine[3].docker # services[1].service.docker
    /\ Registered(tool.target.serverName)
    /\ engine[3].docker = RegisteredDocker(tool.target.serverName)

\* C16: no tool handler lets a failure leave it as a raised exception: every
\* handler ends by returning a text.
C16_NoHandlerRaises ==
    tool.phase = "done" => tool.result.outcome = "returned"

\* C18: when the engine request of a single-endpoint operation fails, the
\* caller is given that first failure, tagged with the name of the endpoint
\* it occurred on.
C18_FailureTaggedWithEndpoint ==
    (tool.phase = "done" /\ tool.target.found /\ tool.result.text.error = EngineError) =>
        /\ Len(engine) >= 1
        /\ AllCallsOn(engine, tool.target.service.docker)
        /\ tool.result.text.server = tool.target.serverName

\* C14: a compose deployment or teardown asked for through server X runs
\* against X's engine: the spawned docker-compose is directed at the engine
\* of the service registered as X.
C14_ComposeRunsOnChosenEndpoint ==
    (tool.name \in ComposeTools /\ tool.target.found) =>
        /\ engine # << >>
        /\ AllCallsOn(engine, tool.target.service.docker)

\* C17: a successful result of a container, image or compose tool names a
\* registered endpoint, and that endpoint is the one whose engine received
\* the operation.
C17_SuccessNamesActingEndpoint ==
    (/\ tool.phase = "done"
     /\ tool.name \in ContainerTools \cup ImageTools \cup ComposeTools
     /\ tool.result.outcome = "returned"
     /\ tool.result.text = SuccessText(tool.name, tool.result.text.server)) =>
        /\ Registered(tool.result.text.server)
        /\ engine # << >>
        /\ AllCallsOn(engine, RegisteredDocker(tool.result.text.server))

TlsGiven(c) == {f \in {"ca", "cert", "key"} : c[f] # ""}

TlsHeld(docker) == {f \in {"ca", "cert", "key"} : docker[f] # ""}

\* C21: the client handle of a connection holds CA, certificate and key all
\* together or none of them, and a configuration that supplies only one or
\* two of the three is rejected, never constructed as a connection without
\* TLS.
C21_TlsAllOrNone ==
    ctor.outcome = "constructed" =>
        /\ Cardinality(TlsHeld(ctor.service.docker)) \in {0, 3}
        /\ Cardinality(TlsGiven(ctor.given)) \in {0, 3}

(***************************************************************************)
(* Properties of the descriptors and groups a fan-out returns.             *)
(***************************************************************************)
RECURSIVE OwnerNames(_, _)
\* for each descriptor the calls produced, in order, the registry key of the
\* endpoint whose call produced it
OwnerNames(calls, all) ==
    IF calls = << >> THEN << >>
    ELSE LET c == Head(calls)
             n == IF c.ok THEN Len(dockerListContainers(c.service.docker, all)) ELSE 0
         IN  [i \in 1..n |-> c.name] \o OwnerNames(Tail(calls), all)

\* C22: every descriptor DockerService.listContainers returns carries the
\* connection's name as dockerServer, and every descriptor in the result of
\* listAllContainers carries the registry key of the endpoint whose call
\* produced it.
C22_DescriptorsNameTheirEndpoint ==
    /\ \A i \in 1..Len(services), all \in BOOLEAN :
          LET r == listContainers(services[i].service, all, TRUE)
          IN  /\ r.ok
              /\ \A k \in 1..Len(r.value) :
                    /\ r.value[k].dockerServer = getName(services[i].service)
                    /\ r.value[k].dockerServer = services[i].name
    /\ fan.op = "listAllContainers" =>
          /\ Len(fan.acc) = Len(OwnerNames(fan.calls, fan.all))
          /\ \A k \in 1..Len(fan.acc) :
                fan.acc[k].dockerServer = OwnerNames(fan.calls, fan.all)[k]

\* listAllContainers returned descriptors of two endpoints, one of them the
\* endpoint named "h" whose host is "g"
C22_Witness ==
    /\ fan.op = "listAllContainers"
    /\ fan.status = "returned"
    /\ \E k \in 1..Len(fan.acc) : fan.acc[k].dockerServer = S_a
    /\ \E k \in 1..Len(fan.acc) : fan.acc[k].dockerServer = S_h /\ fan.acc[k].id = S_w
    /\ \E j \in 1..Len(fan.calls) : ~fan.calls[j].ok

GroupedOps == {"listAllImages", "listAllNetworks", "listAllVolumes"}

\* what the engine behind a connection lists for a grouped fan-out
EngineItems(op, docker) ==
    CASE op = "listAllImages" -> EngineImages(docker)
      [] op = "listAllNetworks" -> EngineNetworks(docker)
      [] op = "listAllVolumes" -> EngineVolumes(docker)

RECURSIVE GroupsOf(_, _)
\* one group per successful call, in call order, labelled with the registry
\* key and holding what the engine listed
GroupsOf(calls, op) ==
    IF calls = << >> THEN << >>
    ELSE (IF Head(calls).ok
          THEN << [server |-> Head(calls).name,
                   items |-> EngineItems(op, Head(calls).service.docker)] >>
          ELSE << >>) \o GroupsOf(Tail(calls), op)

\* the groups returned are one per successful call, labelled and unmodified
C23_Groups ==
    fan.op \in GroupedOps =>
        /\ fan.status # "raised"
        /\ fan.acc = GroupsOf(fan.calls, fan.op)

\* no server name labels two groups
C23_Unique ==
    fan.op \in GroupedOps =>
        \A j, k \in 1..Len(fan.acc) :
            fan.acc[j].server = fan.acc[k].server => j = k

\* every endpoint registered when the fan-out returns was called
C23_AllCalled ==
    (fan.op \in GroupedOps /\ fan.status = "returned") =>
        \A i \in 1..Len(services) : WasCalled(services[i].name)

\* C23: listAllImages, listAllNetworks and listAllVolumes never raise and
\* return exactly one group per registered endpoint whose call succeeded,
\* labelled with the endpoint's registry name and holding its result
\* unmodified (an empty result still yields a group); an endpoint whose call
\* failed contributes no group, and no server name appears in two groups.
C23_GroupedPerEndpoint == C23_Groups /\ C23_Unique /\ C23_AllCalled

NextEngine ==
    \/ \E config \in Configs, containerId \in ToolIdentifiers :
          startContainer(NewDockerService(config), containerId)
    \/ \E config \in Configs, containerId \in ToolIdentifiers :
          stopContainer(NewDockerService(config), containerId)
    \/ \E config \in Configs, containerId \in ToolIdentifiers :
          restartContainer(NewDockerService(config), containerId)
    \/ \E config \in Configs, containerId \in ToolIdentifiers, forceArg \in ForceArgs :
          removeContainer(NewDockerService(config), containerId, forceArg)
    \/ \E config \in Configs, containerId \in ToolIdentifiers :
          getContainerStats(NewDockerService(config), containerId)
    \/ \E reached \in BOOLEAN : EngineAnswers(reached)
    \/ \E reached \in BOOLEAN, stats \in Samples : StatsAnswers(reached, stats)
    \/ \E reached \in BOOLEAN : InspectAnswers(reached)
    \/ CallReturns

SpecEngine == Init /\ [][NextEngine]_vars

(***************************************************************************)
(* Properties of the container operations of one connection.               *)
(***************************************************************************)
\* the engine answers a removeContainer whose identifier it resolves
C24_WhenRemoveAnswered ==
    LET d == call.service.docker
        i == EngineResolve(world[d], call.containerId)
        c == world[d][i]
    IN  (/\ call.op = "removeContainer"
         /\ call.status = "awaiting"
         /\ call'.status # "awaiting"
         /\ call'.error # "TransportFailure"
         /\ i # 0) =>
            /\ call.request.method = "remove"
            /\ call.request.id = call.containerId
            /\ call.request.options.force = call.force
            /\ (c.State = "running" /\ ~call.force) =>
                  /\ call'.status = "rejected"
                  /\ call'.error = "Conflict"
                  /\ world' = world
            /\ (c.State # "running" \/ call.force) =>
                  /\ call'.status = "resolved"
                  /\ world' = [world EXCEPT ![d] = RemoveAt(world[d], i)]
                  /\ \A k \in 1..Len(world'[d]) : world'[d][k] # c

\* C24: removeContainer(id, force) hands force unchanged to the engine: with
\* force=false (or left out) against a running container the call fails with
\* Conflict and the container remains, and with force=true it succeeds and
\* the container is removed.
C24_ForceForwarded == [][C24_WhenRemoveAnswered]_vars

\* a forced removal of a running container has succeeded and the engine no
\* longer holds it
C24_Witness ==
    /\ call.op = "removeContainer"
    /\ call.status = "resolved"
    /\ call.force
    /\ call.request.options.force
    /\ call.was = "running"
    /\ EngineResolve(world[call.service.docker], call.containerId) = 0

\* the readings of the repository's test
TestCpu ==
    [total |-> 1000000, pretotal |-> 500000, system |-> 2000000,
     presystem |-> 1000000, online_cpus |-> 2]

TestMemory ==
    [usage |-> 134217728, limit |-> 268435456, stats |-> TRUE,
     cache |-> Number(67108864)]

\* C25: getContainerStats returns cpuPercentage = (cpu delta / system delta) *
\* online_cpus * 100, memory used = usage - cache and memory percentage =
\* used / limit * 100, with network rx/tx zero when eth0 is absent; deltas
\* 500000 / 1000000 with 2 CPUs give exactly 100, and usage 134217728, cache
\* 67108864, limit 268435456 give used 67108864 and exactly 25 percent.
C25_StatsFormulas ==
    (call.op = "getContainerStats" /\ call.status = "resolved") =>
        LET s == call.sample
            v == call.value
            cpu == s.cpu.total - s.cpu.pretotal
            sys == s.cpu.system - s.cpu.presystem
            used == v.memoryUsage.used
            pct == v.memoryUsage.percentage
        IN  /\ v.present
            /\ sys # 0 =>
                  /\ v.cpuPercentage.kind = "finite"
                  /\ v.cpuPercentage.num * sys
                        = cpu * s.cpu.online_cpus * 100 * v.cpuPercentage.den
            /\ s.memory.cache.kind = "finite" =>
                  /\ used = Number(s.memory.usage - s.memory.cache.num)
                  /\ v.memoryUsage.limit = Number(s.memory.limit)
                  /\ s.memory.limit # 0 =>
                        /\ pct.kind = "finite"
                        /\ used.num % 1048576 = 0
                        /\ s.memory.limit % 1048576 = 0
                        /\ pct.num * (s.memory.limit \div 1048576)
                              = (used.num \div 1048576) * 100 * pct.den
            /\ ~(s.net.networks /\ s.net.eth0) =>
                  /\ v.networkIO.rx_bytes = Number(0)
                  /\ v.networkIO.tx_bytes = Number(0)
            /\ (s.net.networks /\ s.net.eth0) =>
                  /\ v.networkIO.rx_bytes = s.net.rx_bytes
                  /\ v.networkIO.tx_bytes = s.net.tx_bytes
            /\ s.cpu = TestCpu => v.cpuPercentage = Number(100)
            /\ s.memory = TestMemory =>
                  /\ used = Number(67108864)
                  /\ pct = Number(25)

\* the statistics of the test's readings were returned for a container
\* without eth0
C25_Witness ==
    /\ call.op = "getContainerStats"
    /\ call.status = "resolved"
    /\ call.sample.cpu = TestCpu
    /\ call.sample.memory = TestMemory
    /\ ~call.sample.net.eth0
    /\ call.value.cpuPercentage = Number(100)
    /\ call.value.memoryUsage.percentage = Number(25)
    /\ call.value.networkIO.rx_bytes = Number(0)

SpecBoot == Init /\ [][NextBoot]_vars

(***************************************************************************)
(* Properties of the startup.                                              *)
(***************************************************************************)
\* C26: with no endpoint configured (no DOCKER_SERVERS, no DOCKER_HOST, no
\* DOCKER_SOCKET) the startup registers the local socket
\* /var/run/docker.sock if it exists, and only if it does not exist registers
\* host localhost, port 2375 over http.
C26_DefaultPrefersSocket ==
    (/\ boot.phase = "running"
     /\ boot.env.DOCKER_SERVERS = ""
     /\ boot.env.DOCKER_HOST = NoStr
     /\ boot.env.DOCKER_SOCKET = NoStr) =>
        /\ Len(boot.services) = 1
        /\ LET docker == boot.services[1].service.docker
           IN  IF boot.env.socketExists
               THEN docker.mode \in {"socket", "default"}
               ELSE /\ docker.mode = "tcp"
                    /\ docker.host = S_localhost
                    /\ docker.port = 2375
                    /\ docker.protocol = "http"

SpecToolsConcurrent == Init /\ [][NextToolsConcurrent]_vars

(***************************************************************************)
(* Properties of operations in flight while an endpoint is removed.        *)
(***************************************************************************)
\* the handler's text reports success
Succeeded ==
    /\ tool.phase = "done"
    /\ tool.result.outcome = "returned"
    /\ tool.result.text = SuccessText(tool.name, tool.target.serverName)

\* C27: removing an endpoint has no effect on operations already in flight:
\* an operation that obtained the connection before removeDockerService ran
\* still issues and completes its engine calls on that connection, and a
\* fan-out that began that endpoint's call still includes its result.
C27_InFlightUnaffected ==
    /\ (tool.phase \in {"calling", "done"} /\ tool.target.found) =>
          AllCallsOn(engine, tool.target.service.docker)
    /\ (tool.name \in ContainerTools \cup ImageTools /\ Succeeded) =>
          /\ tool.target.found
          /\ Len(engine) = Len(EngineOps(tool.name))
    /\ fan.op = "listAllContainers" => fan.acc = ConcatSucceeded(fan.calls, fan.all)
    /\ fan.op \in GroupedOps => fan.acc = GroupsOf(fan.calls, fan.op)
    /\ (fan.op = "findContainerService" /\ fan.status = "returned" /\ fan.found.found) =>
          /\ fan.calls # << >>
          /\ fan.found.service = fan.calls[Len(fan.calls)].service
          /\ fan.calls[Len(fan.calls)].ok

\* a container tool completed all its engine calls on an endpoint that was
\* removed after the handler had resolved it
C27_Witness ==
    /\ tool.name \in ContainerTools
    /\ Succeeded
    /\ ~Registered(tool.target.serverName)
    /\ Len(engine) = Len(EngineOps(tool.name))
    /\ Len(engine) >= 1
    /\ AllCallsOn(engine, tool.target.service.docker)

\* a listing returned the containers of an endpoint removed during its call
C27_FanWitness ==
    /\ fan.op = "listAllContainers"
    /\ fan.status = "returned"
    /\ Len(fan.calls) = 1
    /\ fan.calls[1].ok
    /\ ~Registered(fan.calls[1].name)
    /\ fan.acc # << >>

\* the registry with every call made while no fan-out is suspended (the
\* interleaved mutations are those of Spec)
NextQuiet ==
    \/ \E config \in Configs :
          fan.status = "idle" /\ addDockerService(config) /\ Apart
    \/ \E name \in ServiceNames \cup {S_zz} :
          fan.status = "idle" /\ removeDockerService(name) /\ Apart
    \/ \E all \in BOOLEAN : listAllContainers(all) /\ Apart
    \/ listAllImages /\ Apart
    \/ listAllNetworks /\ Apart
    \/ listAllVolumes /\ Apart
    \/ \E containerId \in Identifiers : findContainerService(containerId) /\ Apart
    \/ \E reached \in BOOLEAN : FanResume(reached) /\ Apart
    \/ FanDone /\ Apart

\* the same with the reads of the registry
NextReads ==
    \/ NextQuiet
    \/ \E name \in ServiceNames \cup {S_zz} : CallGetDockerService(name) /\ Apart
    \/ CallGetDockerServiceNames /\ Apart
    \/ CallGetAllDockerServices /\ Apart
    \/ \E name \in ServiceNames \cup {S_zz}, delete \in BOOLEAN :
          CallerWritesReturnedMap(name, delete) /\ Apart

SpecReads == Init /\ [][NextReads]_vars

(***************************************************************************)
(* Frame of the registry.                                                  *)
(***************************************************************************)
Mutators == {"addDockerService", "removeDockerService"}

\* C28: the mapping is changed only by addDockerService and
\* removeDockerService: getDockerService, getDockerServiceNames,
\* getAllDockerServices (writes to the Map it returned included), every
\* listAll fan-out and findContainerService leave the entries as they were,
\* whether the per-endpoint calls succeed or fail.
C28_OnlyAddAndRemoveChangeRegistry ==
    [][ret'.op \notin Mutators => services' = services]_vars

\* the caller has emptied the Map getAllDockerServices returned, and the
\* registry still holds its two endpoints
C28_Witness ==
    /\ ret.op = "getAllDockerServices"
    /\ ret.value.entries = << >>
    /\ Len(services) = 2

(***************************************************************************)
(* Termination of the fan-outs.  The continuation of an await runs once    *)
(* the awaited call has settled: under the assumption that every           *)
(* per-endpoint call settles, FanResume is weakly fair.                    *)
(***************************************************************************)
CallsComplete == WF_vars(\E reached \in BOOLEAN : FanResume(reached) /\ Apart)

SpecCallsComplete == Init /\ [][NextQuiet]_vars /\ CallsComplete

\* while the call on an endpoint has not completed, the fan-out stays at that
\* endpoint: it returns nothing and queries no other endpoint; the only step
\* that moves it is the completion of that call
C29_StalledUntilCallCompletes ==
    fan.status = "awaiting" =>
        \/ /\ fan'.calls = fan.calls
           /\ fan'.status = "awaiting"
           /\ fan'.cur = fan.cur
           /\ fan'.acc = fan.acc
           /\ fan'.found = fan.found
        \/ /\ Len(fan'.calls) = Len(fan.calls) + 1
           /\ SubSeq(fan'.calls, 1, Len(fan.calls)) = fan.calls
           /\ fan'.calls[Len(fan'.calls)].name = fan.cur.name
           /\ fan'.calls[Len(fan'.calls)].service = fan.cur.service

\* C29: every fan-out eventually returns provided every per-endpoint call it
\* issues eventually completes; while a call has not completed the fan-out is
\* stalled at that endpoint, with no result returned and no later endpoint
\* queried.
C29_FanOutReturnsIfCallsComplete ==
    /\ (fan.status = "awaiting") ~> (fan.status = "returned")
    /\ [][C29_StalledUntilCallCompletes]_vars

\* a fan-out over two endpoints has returned after both calls completed, the
\* first of them with a failure
C29_Witness ==
    /\ fan.status = "returned"
    /\ Len(fan.calls) = 2
    /\ ~fan.calls[1].ok
    /\ fan.calls[2].ok

(***************************************************************************)
(* Settlement of the compose promise.                                      *)
(***************************************************************************)
\* a settled outcome is never replaced
C30_SettledStays ==
    \A n \in 1..Len(inv) :
        inv[n].promise # "pending" =>
            /\ inv'[n].promise = inv[n].promise
            /\ inv'[n].reason = inv[n].reason

\* the first event whose listener ran to its end has settled the outcome, and
\* an operation whose child emitted 'error' is rejected with the spawn error
\* whatever 'close' reported afterwards
C30_FirstEventSettles ==
    \A n \in 1..Len(inv) :
        /\ (inv[n].child \in {"errored", "closed"} /\ ~inv[n].uncaught) =>
              inv[n].promise # "pending"
        /\ (inv[n].child = "errored"
              \/ (inv[n].child = "closed" /\ inv[n].exitCode = SpawnErrno)) =>
              /\ inv[n].promise = "rejected"
              /\ inv[n].reason = SpawnError

====
